---------------------------- MODULE Spec2Model ----------------------------
(***************************************************************************)
(* StatLine: roster / stat-sheet reconciliation and 1-99 slot assignment.  *)
(*                                                                         *)
(* Strings are sequences of one-character strings, so that parseInt,       *)
(* normalisation, splitting and substring tests are computed character by  *)
(* character, as the JavaScript runtime does.                              *)
(***************************************************************************)
EXTENDS Integers, Sequences, FiniteSets, TLC

VARIABLES
    pc,            \* "input" before the operation has run, "done" after
    jersey,        \* jerseyToRow: first input string
    jersey2,       \* jerseyToRow: second input string
    row,           \* jerseyToRow(jersey)
    row2,          \* jerseyToRow(jersey2)
    rosterPlayer,  \* matcher: {firstName, lastName, number}
    allStats,      \* matcher: list of {number, name} stat records
    primaryOk,     \* matcher: primaryMatch(rosterPlayer, allStats[1])
    matched,       \* matcher: index in allStats returned by findMatchingStats, 0 = undefined
    sport,         \* slot assigner that ran
    roster,        \* slot assigner input: list of RosterPlayer
    playerStats,   \* slot assigner input: list of stat records
    goalieStats,   \* slot assigner input (soccer): list of goalie stat records
    ordered,       \* slot assigner output: list of {slot, display, idx, stat}
    needsSlot,     \* football: the queue of roster indices needing an alternative slot
    tab,           \* display rows: the football tab shown ("roster" or "stats")
    display,       \* display rows: the list returned by createDisplayRows
    catSport,      \* cat stats: the selector that ran
    catPlayer,     \* cat stats: the stat record of the athlete
    catCount,      \* cat stats (basketball): the requested number of columns
    catStats,      \* cat stats: the list returned by the selector
    category,      \* cat stats (football): the category returned
    fetchKind,     \* fetch fallback: the loop that runs
    urls,          \* fetch fallback: what each candidate URL answers, in list order
    fetchIdx,      \* fetch fallback: position of the loop in the URL list
    requests,      \* fetch fallback: the candidates requested so far, in order of issue
    inFlight,      \* fetch fallback: the candidates whose request has not settled
    fetchResult,   \* fetch fallback: "pending", "failure" or the candidate returned
    apiPlayers,    \* API adapter: the list handed to sortByJersey
    apiSorted,     \* API adapter: the list sortByJersey returns
    merged,        \* digit splitter: the merged digit text
    ab,            \* digit splitter: the at-bats of the line
    splitResult,   \* digit splitter: the tuple returned, <<>> for null
    savedSchools,  \* saved schools: the list stored under STORAGE_KEY
    now,           \* saved schools: the clock read by Date.now()
    lastCall,      \* saved schools: the last call, its arguments, the list before it and what it returned
    selectedSport, \* page: the sport selected
    selectedSchool,\* page: the school id selected in the combobox
    useCustomUrls, \* page: the Custom URLs switch
    customSchoolName,\* page: the name typed into the custom form
    customUrls,    \* page: TRUE when both custom URLs are filled in
    isLoading,     \* page: a Get Stats run is under way
    error,         \* page: the error shown
    rosterData,    \* page: the roster shown, with the sport it was fetched for
    statsData,     \* page: the stats shown, with the sport they were fetched for
    run,           \* page: the Get Stats run in flight, with the values it captured
    lastRun,       \* page: what the last finished run loaded and whether it wrote the storage
    lineNo,        \* football parser: the number of lines processed
    currentSection,\* football parser: currentSection
    playerMap,     \* football parser: the players map, in insertion order
    lastLine,      \* football parser: the line just processed, the section before it, the section its data was read under and the section after it
    lastHeader,    \* football parser: the section named by the most recent header of the text
    accepted,      \* football parser: the stat lines accepted so far, the latest of each athlete and field
    pdfLineNo,     \* parsePdfStats: the number of lines processed
    inBatting,     \* parsePdfStats: inBatting
    inPitching,    \* parsePdfStats: inPitching
    batting,       \* parsePdfStats: batting
    pitching,      \* parsePdfStats: pitching
    lastSentinel,  \* parsePdfStats: the most recent sentinel header of the text
    lastPdfLine    \* parsePdfStats: the line just processed, the sentinel and the lengths of batting and pitching before it

vars == <<pc, jersey, jersey2, row, row2, rosterPlayer, allStats, primaryOk,
          matched, sport, roster, playerStats, goalieStats, ordered, needsSlot,
          tab, display, catSport, catPlayer, catCount, catStats, category,
          fetchKind, urls, fetchIdx, requests, inFlight, fetchResult,
          apiPlayers, apiSorted,
          merged, ab, splitResult,
          savedSchools, now, lastCall,
          selectedSport, selectedSchool, useCustomUrls, customSchoolName, customUrls, isLoading, error, rosterData, statsData, run, lastRun,
          lineNo, currentSection, playerMap, lastLine, lastHeader, accepted,
          pdfLineNo, inBatting, inPitching, batting, pitching, lastSentinel, lastPdfLine>>

jerseyVars == <<jersey, jersey2, row, row2>>
matchVars  == <<rosterPlayer, allStats, primaryOk, matched>>
rosterVars == <<sport, roster, playerStats, goalieStats, ordered, needsSlot>>
displayVars == <<tab, display>>
catVars == <<catSport, catPlayer, catCount, catStats, category>>
fetchVars == <<fetchKind, urls, fetchIdx, requests, inFlight, fetchResult>>
apiVars == <<apiPlayers, apiSorted>>
splitVars == <<merged, ab, splitResult>>
schoolsVars == <<savedSchools, now, lastCall>>
pageVars == <<selectedSport, selectedSchool, useCustomUrls, customSchoolName, customUrls, isLoading, error, rosterData, statsData, run, lastRun>>
footballVars == <<lineNo, currentSection, playerMap, lastLine, lastHeader, accepted>>
pdfVars == <<pdfLineNo, inBatting, inPitching, batting, pitching, lastSentinel, lastPdfLine>>
\* the variables outside each group
exceptJersey == <<matchVars, rosterVars, displayVars, catVars, fetchVars, apiVars, splitVars, schoolsVars, pageVars, footballVars, pdfVars>>
exceptMatch == <<jerseyVars, rosterVars, displayVars, catVars, fetchVars, apiVars, splitVars, schoolsVars, pageVars, footballVars, pdfVars>>
exceptRoster == <<jerseyVars, matchVars, displayVars, catVars, fetchVars, apiVars, splitVars, schoolsVars, pageVars, footballVars, pdfVars>>
exceptDisplay == <<jerseyVars, matchVars, catVars, fetchVars, apiVars, splitVars, schoolsVars, pageVars, footballVars, pdfVars>>
exceptFetch == <<jerseyVars, matchVars, rosterVars, displayVars, catVars, apiVars, splitVars, schoolsVars, pageVars, footballVars, pdfVars>>
exceptApi == <<jerseyVars, matchVars, rosterVars, displayVars, catVars, fetchVars, splitVars, schoolsVars, pageVars, footballVars, pdfVars>>
exceptCat == <<jerseyVars, matchVars, rosterVars, displayVars, fetchVars, apiVars, splitVars, schoolsVars, pageVars, footballVars, pdfVars>>
exceptSplit == <<jerseyVars, matchVars, rosterVars, displayVars, catVars, fetchVars, apiVars, schoolsVars, pageVars, footballVars, pdfVars>>
exceptSchools == <<jerseyVars, matchVars, rosterVars, displayVars, catVars, fetchVars, apiVars, splitVars, pageVars, footballVars, pdfVars>>
exceptPage == <<jerseyVars, matchVars, rosterVars, displayVars, catVars, fetchVars, apiVars, splitVars, schoolsVars, footballVars, pdfVars>>
exceptPageAndSchools == <<jerseyVars, matchVars, rosterVars, displayVars, catVars, fetchVars, apiVars, splitVars, footballVars, pdfVars>>
exceptFootball == <<jerseyVars, matchVars, rosterVars, displayVars, catVars, fetchVars, apiVars, splitVars, schoolsVars, pageVars, pdfVars>>
exceptPdf == <<jerseyVars, matchVars, rosterVars, displayVars, catVars, fetchVars, apiVars, splitVars, schoolsVars, pageVars, footballVars>>

-----------------------------------------------------------------------------
(* Bounds                                                                   *)

\* longest jersey string enumerated for jerseyToRow
MaxJerseyLen == 3
\* number of roster players enumerated freely (besides the block of fillers)
MaxExtra == 2
\* longest stat list enumerated for the matcher
MaxStats == 2

-----------------------------------------------------------------------------
(* Characters and strings                                                   *)

Digits == <<"0", "1", "2", "3", "4", "5", "6", "7", "8", "9">>
DigitSet == {Digits[i] : i \in 1..10}

DigitVal(c) == (CHOOSE i \in 1..10 : Digits[i] = c) - 1

Upper == <<"A","B","C","D","E","F","G","H","I","J","K","L","M",
           "N","O","P","Q","R","S","T","U","V","W","X","Y","Z">>
Lower == <<"a","b","c","d","e","f","g","h","i","j","k","l","m",
           "n","o","p","q","r","s","t","u","v","w","x","y","z">>
UpperSet == {Upper[i] : i \in 1..26}
LowerSet == {Lower[i] : i \in 1..26}

\* String.prototype.toLowerCase on one character
toLowerCase(c) == IF c \in UpperSet THEN Lower[CHOOSE i \in 1..26 : Upper[i] = c] ELSE c

\* the only white space character of the modelled alphabet
IsSpace(c) == c = " "

\* String(n) for a non-negative integer
RECURSIVE ToStr(_)
ToStr(n) == IF n < 10 THEN <<Digits[n + 1]>> ELSE ToStr(n \div 10) \o <<Digits[(n % 10) + 1]>>

\* all strings over alphabet A of length at most n
StringsUpTo(A, n) == UNION {[1..k -> A] : k \in 0..n}

\* JavaScript NaN, as a value no parsed number can take
NaN == 0 - 1000000
isNaN(x) == x = NaN

RECURSIVE SkipSpaces(_)
SkipSpaces(s) == IF s # <<>> /\ IsSpace(Head(s)) THEN SkipSpaces(Tail(s)) ELSE s

RECURSIVE DigitPrefix(_)
DigitPrefix(s) ==
    IF s # <<>> /\ Head(s) \in DigitSet THEN <<Head(s)>> \o DigitPrefix(Tail(s)) ELSE <<>>

RECURSIVE DecValue(_)
DecValue(d) == IF d = <<>> THEN 0 ELSE 10 * DecValue(SubSeq(d, 1, Len(d) - 1)) + DigitVal(d[Len(d)])

\* parseInt(s): leading white space skipped, an optional sign, then the longest
\* run of decimal digits; NaN when there is none. (The alphabets used never
\* form the prefix "0x", so the radix is always 10.)
parseInt(s) ==
    LET t == SkipSpaces(s)
        neg == t # <<>> /\ Head(t) = "-"
        u == IF t # <<>> /\ Head(t) \in {"-", "+"} THEN Tail(t) ELSE t
        d == DigitPrefix(u)
    IN  IF d = <<>> THEN NaN
        ELSE IF neg THEN 0 - DecValue(d) ELSE DecValue(d)

-----------------------------------------------------------------------------
(* src/lib/utils/player-matching.ts                                         *)

jerseyToRow_swapped(j) ==
    IF j = <<"0">> THEN 99
    ELSE IF j = <<"0", "0">> THEN 99
    ELSE LET num == parseInt(j)
         IN  IF ~isNaN(num) /\ num >= 1 /\ num < 90 THEN num
             ELSE IF ~isNaN(num) /\ num >= 90 /\ num <= 98 THEN num
             ELSE 0

jerseyToRow(j) ==
    IF j = <<"0">> THEN 90
    ELSE IF j = <<"0", "0">> THEN 99
    ELSE LET num == parseInt(j)
         IN  IF ~isNaN(num) /\ num >= 1 /\ num < 90 THEN num
             ELSE IF ~isNaN(num) /\ num >= 90 /\ num <= 98 THEN num
             ELSE 0


\* String(n) for an integer n
NumToString(n) == IF n < 0 THEN <<"-">> \o ToStr(0 - n) ELSE ToStr(n)

\* name.toLowerCase().replace(/[^a-z0-9]/g, '')
RECURSIVE normalizeName(_)
normalizeName(name) ==
    IF name = <<>> THEN <<>>
    ELSE LET c == toLowerCase(Head(name))
         IN  (IF c \in LowerSet \cup DigitSet THEN <<c>> ELSE <<>>)
             \o normalizeName(Tail(name))

\* '00' and '0' are kept; otherwise String(parseInt(jersey) || jersey):
\* NaN and 0 are falsy, so the jersey text itself is returned for them
normalizeJersey(j) ==
    IF j = <<"0", "0">> \/ j = <<"0">> THEN j
    ELSE LET num == parseInt(j)
         IN  IF isNaN(num) \/ num = 0 THEN j ELSE NumToString(num)

\* position of the first character of s satisfying "is c", 0 when there is none
FirstIndex(s, c) ==
    IF \E i \in 1..Len(s) : s[i] = c
    THEN CHOOSE i \in 1..Len(s) : s[i] = c /\ \A k \in 1..(i - 1) : s[k] # c
    ELSE 0

\* String.prototype.split(c) for a one-character separator
RECURSIVE split(_, _)
split(s, c) ==
    LET i == FirstIndex(s, c)
    IN  IF i = 0 THEN <<s>>
        ELSE <<SubSeq(s, 1, i - 1)>> \o split(SubSeq(s, i + 1, Len(s)), c)

\* String.prototype.split(/\s+/)
RECURSIVE splitWs(_)
splitWs(s) ==
    LET i == FirstIndex(s, " ")
    IN  IF i = 0 THEN <<s>>
        ELSE <<SubSeq(s, 1, i - 1)>> \o splitWs(SkipSpaces(SubSeq(s, i + 1, Len(s))))

RECURSIVE TrimEnd(_)
TrimEnd(s) ==
    IF s # <<>> /\ IsSpace(s[Len(s)]) THEN TrimEnd(SubSeq(s, 1, Len(s) - 1)) ELSE s

\* String.prototype.trim
trim(s) == TrimEnd(SkipSpaces(s))

\* a.includes(b): b occurs in a as a contiguous substring (always, when b is empty)
includes(a, b) ==
    \E i \in 0..(Len(a) - Len(b)) : SubSeq(a, i + 1, i + Len(b)) = b

extractLastName(name) ==
    IF includes(name, <<",">>)
    THEN trim(split(name, ",")[1])
    ELSE LET parts == splitWs(trim(name)) IN parts[Len(parts)]

extractFirstName(name) ==
    IF includes(name, <<",">>)
    THEN splitWs(trim(split(name, ",")[2]))[1]
    ELSE splitWs(trim(name))[1]

looseNameMatch_and(rosterFirst, rosterLast, statsName) ==
    LET rFirst == normalizeName(rosterFirst)
        rLast == normalizeName(rosterLast)
        statsFirst == normalizeName(extractFirstName(statsName))
        statsLast == normalizeName(extractLastName(statsName))
        lastMatches == rLast = statsLast \/ includes(rLast, statsLast) \/ includes(statsLast, rLast)
        firstMatches == rFirst = statsFirst \/ includes(rFirst, statsFirst) \/ includes(statsFirst, rFirst)
    IN  lastMatches /\ firstMatches

looseNameMatch(rosterFirst, rosterLast, statsName) ==
    LET rFirst == normalizeName(rosterFirst)
        rLast == normalizeName(rosterLast)
        statsFirst == normalizeName(extractFirstName(statsName))
        statsLast == normalizeName(extractLastName(statsName))
        lastMatches == rLast = statsLast \/ includes(rLast, statsLast) \/ includes(statsLast, rLast)
        firstMatches == rFirst = statsFirst \/ includes(rFirst, statsFirst) \/ includes(statsFirst, rFirst)
    IN  lastMatches \/ firstMatches

exactNameMatch(rosterFirst, rosterLast, statsName) ==
    LET rFirst == normalizeName(rosterFirst)
        rLast == normalizeName(rosterLast)
        statsFirst == normalizeName(extractFirstName(statsName))
        statsLast == normalizeName(extractLastName(statsName))
    IN  rFirst = statsFirst /\ rLast = statsLast

primaryMatch(rosterJersey, rosterFirst, rosterLast, statsJersey, statsName) ==
    LET jerseyMatches == normalizeJersey(rosterJersey) = normalizeJersey(statsJersey)
    IN  IF ~jerseyMatches THEN FALSE
        ELSE looseNameMatch(rosterFirst, rosterLast, statsName)

fallbackMatch(rosterFirst, rosterLast, statsName) ==
    exactNameMatch(rosterFirst, rosterLast, statsName)

\* Array.prototype.find, given the set of indices whose element satisfies the
\* callback: the least such index, 0 for undefined
Find(hits) ==
    IF hits = {} THEN 0 ELSE CHOOSE i \in hits : \A k \in hits : i <= k

\* the phase-2 test of findMatchingStats on one record
Phase2Test(p, st) ==
    /\ normalizeJersey(st.number) # normalizeJersey(p.number)
    /\ fallbackMatch(p.firstName, p.lastName, st.name)

findMatchingStats_sameJersey(p, stats) ==
    IF Len(stats) = 0 THEN 0
    ELSE LET P1(st) == primaryMatch(p.number, p.firstName, p.lastName, st.number, st.name)
             primaryResult == Find({i \in 1..Len(stats) : P1(stats[i])})
             P2(st) == /\ normalizeJersey(st.number) = normalizeJersey(p.number)
                       /\ fallbackMatch(p.firstName, p.lastName, st.name)
         IN  IF primaryResult # 0 THEN primaryResult ELSE Find({i \in 1..Len(stats) : P2(stats[i])})

findMatchingStats_fallbackFirst(p, stats) ==
    IF Len(stats) = 0 THEN 0
    ELSE LET P1(st) == primaryMatch(p.number, p.firstName, p.lastName, st.number, st.name)
             P2(st) == Phase2Test(p, st)
             fallbackResult == Find({i \in 1..Len(stats) : P2(stats[i])})
         IN  IF fallbackResult # 0 THEN fallbackResult
             ELSE Find({i \in 1..Len(stats) : P1(stats[i])})

\* the index in stats of the record returned, 0 when undefined is returned
findMatchingStats(p, stats) ==
    IF Len(stats) = 0 THEN 0
    ELSE LET P1(st) == primaryMatch(p.number, p.firstName, p.lastName, st.number, st.name)
             primaryResult == Find({i \in 1..Len(stats) : P1(stats[i])})
             P2(st) == Phase2Test(p, st)
         IN  IF primaryResult # 0 THEN primaryResult ELSE Find({i \in 1..Len(stats) : P2(stats[i])})

-----------------------------------------------------------------------------
(* JavaScript Map and Array helpers                                         *)

\* position of key k in the insertion-ordered entry list m, 0 when absent
MapIndex(m, k) ==
    IF \E i \in 1..Len(m) : m[i].key = k
    THEN CHOOSE i \in 1..Len(m) : m[i].key = k
    ELSE 0

MapSet_push(m, k, v) == Append(m, [key |-> k, value |-> v])

\* Map.prototype.set: an existing key keeps its position and takes the new value,
\* a new key is appended
MapSet(m, k, v) ==
    LET i == MapIndex(m, k)
    IN  IF i = 0 THEN Append(m, [key |-> k, value |-> v])
        ELSE [m EXCEPT ![i] = [key |-> k, value |-> v]]

\* a list given by a rule, as an explicit tuple
Tuple(f) == f \o <<>>

\* the element of a one-element set: The({e(x) : x \in {v}}) is e with the
\* constant x = v, v computed once
The(S) == CHOOSE x \in S : TRUE

\* entries.sort((a, b) => a.key - b.key): ascending by key, entries of equal key
\* in their original order (the sort is stable). rank[i] is the position entry i
\* is moved to.
SortByKey(arr) ==
    The({Tuple([p \in 1..Len(arr) |-> arr[CHOOSE i \in 1..Len(arr) : rank[i] = p]]) :
         rank \in {Tuple([i \in 1..Len(arr) |->
                     Cardinality({j \in 1..Len(arr) :
                                    \/ arr[j].key < arr[i].key
                                    \/ arr[j].key = arr[i].key /\ j < i}) + 1])}})

\* numbers.sort((a, b) => a - b)
SortNumbers(arr) ==
    The({The({Tuple([i \in 1..Len(sorted) |-> sorted[i].key]) :
              sorted \in {SortByKey(entries)}}) :
         entries \in {Tuple([i \in 1..Len(arr) |-> [key |-> arr[i]]])}})

\* the distinct elements of arr, in order of first occurrence (the keys of a
\* Map filled in that order)
Distinct(arr) ==
    The({Tuple([n \in 1..Len(first) |-> arr[first[n]]]) :
         first \in {SelectSeq(Tuple([i \in 1..Len(arr) |-> i]),
                              LAMBDA i : \A j \in 1..(i - 1) : arr[j] # arr[i])}})

-----------------------------------------------------------------------------
(* src/unnamed/part_009: football ordering                                  *)

\* FootballStatsView: roster.map(p => ({...p, jersey: p.number, name: `${p.firstName} ${p.lastName}`}))
mappedRoster(r) ==
    [i \in 1..Len(r) |->
        [jersey |-> r[i].number, name |-> r[i].firstName \o <<" ">> \o r[i].lastName]]

\* a stat record as FootballPlayerRaw {jersey, name}
FootballPlayerRaw(stats) ==
    [i \in 1..Len(stats) |-> [jersey |-> stats[i].number, name |-> stats[i].name]]

\* the index in stats of the record returned, 0 when undefined is returned
matchFootballPlayerStats(player, stats, usedStats) ==
    LET rosterFirst == extractFirstName(player.name)
        rosterLast == extractLastName(player.name)
        P1(stat) ==
            /\ (stat.name \o stat.jersey) \notin usedStats
            /\ normalizeJersey(stat.jersey) = normalizeJersey(player.jersey)
            /\ looseNameMatch(rosterFirst, rosterLast, stat.name)
        primary == Find({i \in 1..Len(stats) : P1(stats[i])})
        P2(stat) ==
            /\ (stat.name \o stat.jersey) \notin usedStats
            /\ normalizeJersey(stat.jersey) # normalizeJersey(player.jersey)
            /\ exactNameMatch(rosterFirst, rosterLast, stat.name)
    IN  IF primary # 0 THEN primary ELSE Find({i \in 1..Len(stats) : P2(stats[i])})

\* Step 1, one roster player: st = [has, usedStats]; has lists, for the players
\* so far, the index of the matched stat record (0 for none); a matched record's
\* name+jersey joins usedStats
matchPlayer(st, players, stats, i) ==
    The({[has |-> Append(st.has, m),
          usedStats |-> IF m # 0 THEN st.usedStats \cup {stats[m].name \o stats[m].jersey}
                        ELSE st.usedStats] :
         m \in {matchFootballPlayerStats(players[i], stats, st.usedStats)}})

\* roster.map over players lo..hi in order (the range is halved and the first
\* half computed before the second; the players are still visited in roster
\* order)
RECURSIVE matchPlayers(_, _, _, _, _)
matchPlayers(st, players, stats, lo, hi) ==
    IF lo > hi THEN st
    ELSE IF lo = hi THEN matchPlayer(st, players, stats, lo)
    ELSE The({The({matchPlayers(left, players, stats, mid + 1, hi) :
                   left \in {matchPlayers(st, players, stats, lo, mid)}}) :
              mid \in {(lo + hi) \div 2}})

\* the key a player is grouped under: parseInt(jersey), -999 for NaN
jerseyKey(player) ==
    LET jerseyNum == parseInt(player.jersey)
    IN  IF isNaN(jerseyNum) THEN -999 ELSE jerseyNum

sortStatsFirst_unsorted(group, has) == group

\* [...players].sort((a, b) => bHasStats - aHasStats): the players with stats
\* first, each part in its original order (the sort is stable)
sortStatsFirst(group, has) ==
    SelectSeq(group, LAMBDA i : has[i] # 0) \o SelectSeq(group, LAMBDA i : has[i] = 0)

firstFreeSlot_highest(occupiedSlots) ==
    The({IF free = {} THEN -1
         ELSE CHOOSE slot \in free : \A other \in free : other <= slot :
         free \in {(1..99) \ occupiedSlots}})

\* the inner loop of step 3: the lowest slot of 1..99 not in occupiedSlots,
\* -1 when there is none
firstFreeSlot(occupiedSlots) ==
    The({IF free = {} THEN -1
         ELSE CHOOSE slot \in free : \A other \in free : slot <= other :
         free \in {(1..99) \ occupiedSlots}})

\* Step 2, one jersey number: st = [slotAssignment, occupiedSlots, needsSlot];
\* group = the roster indices with that jersey, in roster order; has[i] = the
\* stat index of roster player i
assignJersey(st, jerseyNum, group, has) ==
    LET isValidSlot == jerseyNum >= 1 /\ jerseyNum <= 99
        sorted == IF Len(group) = 1 THEN group ELSE sortStatsFirst(group, has)
        firstPlayer == sorted[1]
    IN  IF isValidSlot
        THEN [slotAssignment |-> MapSet(st.slotAssignment, jerseyNum, firstPlayer),
              occupiedSlots |-> st.occupiedSlots \cup {jerseyNum},
              needsSlot |-> st.needsSlot \o Tail(sorted)]
        ELSE [slotAssignment |-> st.slotAssignment,
              occupiedSlots |-> st.occupiedSlots,
              needsSlot |-> st.needsSlot \o sorted]

\* the loop over jerseyNumbers[lo..hi] in order (halved as above)
RECURSIVE assignJerseys(_, _, _, _, _, _)
assignJerseys(st, jerseyNumbers, keys, has, lo, hi) ==
    IF lo > hi THEN st
    ELSE IF lo = hi
    THEN The({assignJersey(st, jerseyNumbers[lo], group, has) :
              group \in {SelectSeq(Tuple([i \in 1..Len(keys) |-> i]),
                                   LAMBDA i : keys[i] = jerseyNumbers[lo])}})
    ELSE The({The({assignJerseys(left, jerseyNumbers, keys, has, mid + 1, hi) :
                   left \in {assignJerseys(st, jerseyNumbers, keys, has, lo, mid)}}) :
              mid \in {(lo + hi) \div 2}})

\* Step 3, one queued player: st = [slotAssignment, occupiedSlots, inactivePlayers]
placePlayer(st, player) ==
    The({IF foundSlot # -1
         THEN [slotAssignment |-> MapSet(st.slotAssignment, foundSlot, player),
               occupiedSlots |-> st.occupiedSlots \cup {foundSlot},
               inactivePlayers |-> st.inactivePlayers]
         ELSE [slotAssignment |-> st.slotAssignment,
               occupiedSlots |-> st.occupiedSlots,
               inactivePlayers |-> Append(st.inactivePlayers, player)] :
         foundSlot \in {firstFreeSlot(st.occupiedSlots)}})

\* the loop over queue[lo..hi] in order (halved as above)
RECURSIVE placeQueued(_, _, _, _)
placeQueued(st, queue, lo, hi) ==
    IF lo > hi THEN st
    ELSE IF lo = hi THEN placePlayer(st, queue[lo])
    ELSE The({The({placeQueued(left, queue, mid + 1, hi) :
                   left \in {placeQueued(st, queue, lo, mid)}}) :
              mid \in {(lo + hi) \div 2}})

\* Step 4 and the return value: the active players ascending by slot, then the
\* inactive ones. An entry is {slot, display, idx, stat}: idx is the player's
\* position in the roster, stat the position of its stat record (0 for none).
sortedPlayers(players, has, step2, step3) ==
    The({[ordered |->
            [n \in 1..Len(activeBySlot) |->
                [slot |-> activeBySlot[n].key,
                 display |-> players[activeBySlot[n].value].jersey,
                 idx |-> activeBySlot[n].value,
                 stat |-> has[activeBySlot[n].value]]]
            \o [n \in 1..Len(step3.inactivePlayers) |->
                [slot |-> -1,
                 display |-> players[step3.inactivePlayers[n]].jersey,
                 idx |-> step3.inactivePlayers[n],
                 stat |-> has[step3.inactivePlayers[n]]]],
          needsSlot |-> step2.needsSlot] :
         activeBySlot \in {SortByKey(step3.slotAssignment)}})

\* Step 3 on the queue left by step 2
assignRemaining(players, has, step2) ==
    The({sortedPlayers(players, has, step2, step3) :
         step3 \in {placeQueued([slotAssignment |-> step2.slotAssignment,
                                 occupiedSlots |-> step2.occupiedSlots,
                                 inactivePlayers |-> <<>>],
                                step2.needsSlot, 1, Len(step2.needsSlot))}})

\* Step 2 over the jersey numbers in ascending order
assignNatural(players, has, keys, jerseyNumbers) ==
    The({assignRemaining(players, has, step2) :
         step2 \in {assignJerseys([slotAssignment |-> <<>>, occupiedSlots |-> {},
                                   needsSlot |-> <<>>],
                                  jerseyNumbers, keys, has, 1, Len(jerseyNumbers))}})

\* playersByJersey and its sorted keys
groupByJersey(players, has) ==
    The({The({The({assignNatural(players, has, keys, jerseyNumbers) :
                   jerseyNumbers \in {SortNumbers(distinctKeys)}}) :
              distinctKeys \in {Distinct(keys)}}) :
         keys \in {Tuple([i \in 1..Len(players) |-> jerseyKey(players[i])])}})

\* [ordered |-> the returned list, needsSlot |-> the queue of step 2]
createOrderedFootballRoster(r, stats) ==
    The({The({groupByJersey(players, step1.has) :
              step1 \in {matchPlayers([has |-> <<>>, usedStats |-> {}], players,
                                      safeStats, 1, Len(players))}}) :
         players \in {Tuple(mappedRoster(r))},
         safeStats \in {Tuple(FootballPlayerRaw(stats))}})

-----------------------------------------------------------------------------
(* src/unnamed/part_008, src/unnamed/part_012, src/lib/volleyball/ordering.ts *)

\* rows 1..99, each {row: i, displayJersey}: "0" for row 90, "00" for row 99
emptyRows ==
    Tuple([i \in 1..99 |->
        [key |-> i,
         value |-> [slot |-> i,
                    display |-> IF i = 90 THEN <<"0">>
                                ELSE IF i = 99 THEN <<"0", "0">> ELSE ToStr(i),
                    idx |-> 0, stat |-> 0]]])

\* one roster player: a player whose jerseyToRow is 0 is skipped, any other is
\* set into its row with its matched stats
processPlayer(rows, r, stats, i) ==
    The({IF rowNum = 0 THEN rows
         ELSE MapSet(rows, rowNum,
                     [slot |-> rowNum, display |-> r[i].number, idx |-> i,
                      stat |-> findMatchingStats(r[i], stats)]) :
         rowNum \in {jerseyToRow(r[i].number)}})

\* the loop over roster players lo..hi in order (the range is halved and the
\* first half computed before the second; the players are still visited in
\* roster order)
RECURSIVE processRoster(_, _, _, _, _)
processRoster(rows, r, stats, lo, hi) ==
    IF lo > hi THEN rows
    ELSE IF lo = hi THEN processPlayer(rows, r, stats, lo)
    ELSE The({The({processRoster(left, r, stats, mid + 1, hi) :
                   left \in {processRoster(rows, r, stats, lo, mid)}}) :
              mid \in {(lo + hi) \div 2}})

\* Array.from(rows.values())
mapValues(rows) == [n \in 1..Len(rows) |-> rows[n].value]

createOrderedBasketballRoster(r, stats) ==
    The({mapValues(rows) : rows \in {processRoster(emptyRows, r, stats, 1, Len(r))}})

createOrderedVolleyballRoster(r, stats) ==
    The({mapValues(rows) : rows \in {processRoster(emptyRows, r, stats, 1, Len(r))}})

\* goalies first in the combined list, then field players
createOrderedSoccerRoster(r, fieldStats, goalies) ==
    The({The({mapValues(rows) :
              rows \in {processRoster(emptyRows, r, combined, 1, Len(r))}}) :
         combined \in {goalies \o fieldStats}})

-----------------------------------------------------------------------------
(* Inputs                                                                   *)

\* characters a jersey text is drawn from
JerseyAlphabet == DigitSet \cup {"a", " ", "-"}

\* the jersey texts "0", "00", "1", ..., "98"
JerseyDomain == {<<"0">>, <<"0", "0">>} \cup {ToStr(n) : n \in 1..98}

MatchFirstNames == {<<"M", "i", "k", "e">>, <<"A", "l">>, <<>>}
MatchLastNames == {<<"S", "m", "i", "t", "h">>, <<"L", "e", "e">>}
MatchJerseys == {<<"2", "3">>, <<"0", "2", "3">>, <<"0">>, <<"0", "0">>}
MatchStatNames == {<<"M", ".", " ", "S", "m", "i", "t", "h">>, <<"S", "m", "i", "t", "h", ",", " ", "M", "i", "k", "e">>, <<"m", "i", "k", "e", " ", "s", "m", "i", "t", "h">>, <<"A", "l", " ", "L", "e", "e">>, <<"S", "m", "i", "t", "h">>, <<>>}

MatchRosterPlayers == [firstName : MatchFirstNames, lastName : MatchLastNames, number : MatchJerseys]
MatchStatRecords == [number : MatchJerseys, name : MatchStatNames]
MatchStatLists == UNION {[1..k -> MatchStatRecords] : k \in 0..MaxStats}

\* first jersey of the block of filler players "FillerStart" .. "99"
FillerStart == 2

Filler ==
    [i \in 1..(99 - FillerStart + 1) |->
        [number |-> ToStr(FillerStart + i - 1), firstName |-> <<"F">>, lastName |-> <<"F">>]]

RPlayer(number, first, last) == [number |-> number, firstName |-> first, lastName |-> last]
StatRec(number, name) == [number |-> number, name |-> name]

ExtraPlayers ==
    {RPlayer(<<"7">>, <<"A", "l">>, <<"L", "e", "e">>), RPlayer(<<"7">>, <<"M", "i", "k", "e">>, <<"S", "m", "i", "t", "h">>),
     RPlayer(<<"0">>, <<"A", "l">>, <<"L", "e", "e">>), RPlayer(<<"9", "0">>, <<"M", "i", "k", "e">>, <<"S", "m", "i", "t", "h">>),
     RPlayer(<<"1", "5", "0">>, <<"M", "i", "k", "e">>, <<"S", "m", "i", "t", "h">>), RPlayer(<<"a">>, <<"A", "l">>, <<"L", "e", "e">>),
     RPlayer(<<"0", "0">>, <<"M", "i", "k", "e">>, <<"S", "m", "i", "t", "h">>)}

ExtraRosters == UNION {[1..k -> ExtraPlayers] : k \in 0..MaxExtra}

\* <<player stats, goalie stats>>
StatInputs ==
    {<< <<>>, <<>> >>,
     << <<StatRec(<<"7">>, <<"A", "l", " ", "L", "e", "e">>)>>, <<>> >>,
     << <<StatRec(<<"7">>, <<"A", "l", " ", "L", "e", "e">>), StatRec(<<"9", "0">>, <<"S", "m", "i", "t", "h", ",", " ", "M", "i", "k", "e">>)>>, <<>> >>,
     << <<StatRec(<<"9", "0">>, <<"S", "m", "i", "t", "h", ",", " ", "M", "i", "k", "e">>)>>, <<StatRec(<<"0", "0">>, <<"M", ".", " ", "S", "m", "i", "t", "h">>)>> >>}

\* the stat lists tried with the filler block
FillerStatInputs ==
    {<< <<>>, <<>> >>,
     << <<StatRec(<<"7">>, <<"A", "l", " ", "L", "e", "e">>)>>, <<>> >>}

\* <<roster, <<player stats, goalie stats>>>>: the enumerated players alone with
\* every stat input, and behind the filler block with the stat inputs above
RosterInputs ==
    {<<extra, st>> : extra \in ExtraRosters, st \in StatInputs}
    \cup {<<Filler \o extra, st>> : extra \in ExtraRosters, st \in FillerStatInputs}

-----------------------------------------------------------------------------
(* Idle values of the variable groups a specification does not use          *)

JerseyIdle == jersey = <<>> /\ jersey2 = <<>> /\ row = -1 /\ row2 = -1
MatchIdle ==
    /\ rosterPlayer = [firstName |-> <<>>, lastName |-> <<>>, number |-> <<>>]
    /\ allStats = <<>>
    /\ primaryOk = FALSE
    /\ matched = 0
RosterIdle ==
    /\ sport = "none"
    /\ roster = <<>>
    /\ playerStats = <<>>
    /\ goalieStats = <<>>
    /\ ordered = <<>>
    /\ needsSlot = <<>>
DisplayIdle == tab = "none" /\ display = <<>>
CatIdle ==
    /\ catSport = "none"
    /\ catPlayer = <<>>
    /\ catCount = 0
    /\ catStats = <<>>
    /\ category = ""
FetchIdle ==
    /\ fetchKind = "none"
    /\ urls = <<>>
    /\ fetchIdx = 0
    /\ requests = <<>>
    /\ inFlight = {}
    /\ fetchResult = [status |-> "none"]
ApiIdle == apiPlayers = <<>> /\ apiSorted = <<>>
SplitIdle ==
    /\ merged = <<>>
    /\ ab = 0
    /\ splitResult = <<>>
SchoolsIdle ==
    /\ savedSchools = <<>>
    /\ now = 0
    /\ lastCall = [op |-> "none"]
PageIdle ==
    /\ selectedSport = "none"
    /\ selectedSchool = <<>>
    /\ useCustomUrls = FALSE
    /\ customSchoolName = <<>>
    /\ customUrls = FALSE
    /\ isLoading = FALSE
    /\ error = FALSE
    /\ rosterData = <<>>
    /\ statsData = <<>>
    /\ run = [pc |-> "idle"]
    /\ lastRun = [runs |-> 0, finished |-> FALSE]
FootballIdle ==
    /\ lineNo = 0
    /\ currentSection = "null"
    /\ playerMap = <<>>
    /\ lastLine = [seen |-> FALSE]
    /\ lastHeader = "null"
    /\ accepted = {}
PdfIdle ==
    /\ pdfLineNo = 0
    /\ inBatting = FALSE
    /\ inPitching = FALSE
    /\ batting = <<>>
    /\ pitching = <<>>
    /\ lastSentinel = "none"
    /\ lastPdfLine = [seen |-> FALSE]
IdleExceptJersey == MatchIdle /\ RosterIdle /\ DisplayIdle /\ CatIdle /\ FetchIdle /\ ApiIdle /\ SplitIdle /\ SchoolsIdle /\ PageIdle /\ FootballIdle /\ PdfIdle
IdleExceptMatch == JerseyIdle /\ RosterIdle /\ DisplayIdle /\ CatIdle /\ FetchIdle /\ ApiIdle /\ SplitIdle /\ SchoolsIdle /\ PageIdle /\ FootballIdle /\ PdfIdle
IdleExceptRoster == JerseyIdle /\ MatchIdle /\ DisplayIdle /\ CatIdle /\ FetchIdle /\ ApiIdle /\ SplitIdle /\ SchoolsIdle /\ PageIdle /\ FootballIdle /\ PdfIdle
IdleExceptDisplay == JerseyIdle /\ MatchIdle /\ CatIdle /\ FetchIdle /\ ApiIdle /\ SplitIdle /\ SchoolsIdle /\ PageIdle /\ FootballIdle /\ PdfIdle
IdleExceptCat == JerseyIdle /\ MatchIdle /\ RosterIdle /\ DisplayIdle /\ FetchIdle /\ ApiIdle /\ SplitIdle /\ SchoolsIdle /\ PageIdle /\ FootballIdle /\ PdfIdle
IdleExceptFetch == JerseyIdle /\ MatchIdle /\ RosterIdle /\ DisplayIdle /\ CatIdle /\ ApiIdle /\ SplitIdle /\ SchoolsIdle /\ PageIdle /\ FootballIdle /\ PdfIdle
IdleExceptApi == JerseyIdle /\ MatchIdle /\ RosterIdle /\ DisplayIdle /\ CatIdle /\ FetchIdle /\ SplitIdle /\ SchoolsIdle /\ PageIdle /\ FootballIdle /\ PdfIdle
IdleExceptSplit == JerseyIdle /\ MatchIdle /\ RosterIdle /\ DisplayIdle /\ CatIdle /\ FetchIdle /\ ApiIdle /\ SchoolsIdle /\ PageIdle /\ FootballIdle /\ PdfIdle
IdleExceptSchools == JerseyIdle /\ MatchIdle /\ RosterIdle /\ DisplayIdle /\ CatIdle /\ FetchIdle /\ ApiIdle /\ SplitIdle /\ PageIdle /\ FootballIdle /\ PdfIdle
IdleExceptPage == JerseyIdle /\ MatchIdle /\ RosterIdle /\ DisplayIdle /\ CatIdle /\ FetchIdle /\ ApiIdle /\ SplitIdle /\ SchoolsIdle /\ FootballIdle /\ PdfIdle
IdleExceptPageAndSchools == JerseyIdle /\ MatchIdle /\ RosterIdle /\ DisplayIdle /\ CatIdle /\ FetchIdle /\ ApiIdle /\ SplitIdle /\ FootballIdle /\ PdfIdle
IdleExceptFootball == JerseyIdle /\ MatchIdle /\ RosterIdle /\ DisplayIdle /\ CatIdle /\ FetchIdle /\ ApiIdle /\ SplitIdle /\ SchoolsIdle /\ PageIdle /\ PdfIdle
IdleExceptPdf == JerseyIdle /\ MatchIdle /\ RosterIdle /\ DisplayIdle /\ CatIdle /\ FetchIdle /\ ApiIdle /\ SplitIdle /\ SchoolsIdle /\ PageIdle /\ FootballIdle

-----------------------------------------------------------------------------
(* jerseyToRow applied to one jersey text, or to two texts of its domain    *)

InitJersey ==
    /\ pc = "input"
    /\ \/ jersey \in StringsUpTo(JerseyAlphabet, MaxJerseyLen) /\ jersey2 = jersey
       \/ jersey \in JerseyDomain /\ jersey2 \in JerseyDomain
    /\ row = -1
    /\ row2 = -1
    /\ IdleExceptJersey

ApplyJerseyToRow ==
    /\ pc = "input"
    /\ row' = jerseyToRow(jersey)
    /\ row2' = jerseyToRow(jersey2)
    /\ pc' = "done"
    /\ UNCHANGED <<jersey, jersey2, exceptJersey>>

NextJersey == ApplyJerseyToRow

SpecJersey == InitJersey /\ [][NextJersey]_vars

-----------------------------------------------------------------------------
(* The two-phase matcher applied to one roster player and a stat list       *)

InitMatch ==
    /\ pc = "input"
    /\ rosterPlayer \in MatchRosterPlayers
    /\ allStats \in MatchStatLists
    /\ primaryOk = FALSE
    /\ matched = 0
    /\ IdleExceptMatch

\* primaryMatch on the first record of the list, findMatchingStats on the list
Match ==
    /\ pc = "input"
    /\ primaryOk' = (/\ Len(allStats) > 0
                     /\ primaryMatch(rosterPlayer.number, rosterPlayer.firstName,
                                     rosterPlayer.lastName, allStats[1].number,
                                     allStats[1].name))
    /\ matched' = findMatchingStats(rosterPlayer, allStats)
    /\ pc' = "done"
    /\ UNCHANGED <<rosterPlayer, allStats, exceptMatch>>

NextMatch == Match

SpecMatch == InitMatch /\ [][NextMatch]_vars

-----------------------------------------------------------------------------
(* The four slot assigners applied to a roster and its stat lists           *)

InitRoster ==
    /\ pc = "input"
    /\ sport = "none"
    /\ \E in \in RosterInputs :
        /\ roster = in[1]
        /\ playerStats = in[2][1]
        /\ goalieStats = in[2][2]
    /\ ordered = <<>>
    /\ needsSlot = <<>>
    /\ IdleExceptRoster

OrderFootball ==
    /\ pc = "input"
    /\ \E res \in {createOrderedFootballRoster(roster, playerStats)} :
        /\ ordered' = res.ordered
        /\ needsSlot' = res.needsSlot
    /\ sport' = "football"
    /\ pc' = "done"
    /\ UNCHANGED <<roster, playerStats, goalieStats, exceptRoster>>

OrderBasketball ==
    /\ pc = "input"
    /\ ordered' = createOrderedBasketballRoster(roster, playerStats)
    /\ sport' = "basketball"
    /\ pc' = "done"
    /\ UNCHANGED <<roster, playerStats, goalieStats, needsSlot, exceptRoster>>

OrderSoccer ==
    /\ pc = "input"
    /\ ordered' = createOrderedSoccerRoster(roster, playerStats, goalieStats)
    /\ sport' = "soccer"
    /\ pc' = "done"
    /\ UNCHANGED <<roster, playerStats, goalieStats, needsSlot, exceptRoster>>

OrderVolleyball ==
    /\ pc = "input"
    /\ ordered' = createOrderedVolleyballRoster(roster, playerStats)
    /\ sport' = "volleyball"
    /\ pc' = "done"
    /\ UNCHANGED <<roster, playerStats, goalieStats, needsSlot, exceptRoster>>

NextRoster == OrderFootball \/ OrderBasketball \/ OrderSoccer \/ OrderVolleyball

SpecRoster == InitRoster /\ [][NextRoster]_vars

-----------------------------------------------------------------------------
(* Properties of the slot assigners (checked under SpecRoster)              *)

Pos == 1..Len(ordered)
\* positions of the output that hold an athlete
AthletePos == {n \in Pos : ordered[n].idx # 0}
ActivePos == {n \in AthletePos : ordered[n].slot # -1}
InactivePos == {n \in AthletePos : ordered[n].slot = -1}
\* the output positions at which roster player i appears
PosOf(i) == {n \in AthletePos : ordered[n].idx = i}
\* the slot of roster player i (0 when the player is not in the output)
SlotOf(i) == IF PosOf(i) = {} THEN 0 ELSE ordered[CHOOSE n \in PosOf(i) : TRUE].slot
RosterIdx == 1..Len(roster)
Min(S) == CHOOSE x \in S : \A y \in S : x <= y

\* C1: whichever assigner ran, on whatever roster, no two athletes of the output
\* occupy the same active slot, and every active slot is one of 1..99.
C1_ActiveSlotsInjective ==
    pc = "done" =>
        /\ \A n \in ActivePos : ordered[n].slot \in 1..99
        /\ Cardinality({ordered[n].slot : n \in ActivePos}) = Cardinality(ActivePos)

\* two roster players with the same jersey text are both active
C1_Witness ==
    /\ pc = "done"
    /\ sport = "football"
    /\ \E i, j \in RosterIdx :
        /\ i < j
        /\ roster[i].number = roster[j].number
        /\ SlotOf(i) \in 1..99
        /\ SlotOf(j) \in 1..99

\* C2: every roster player appears exactly once in the output (active or
\* inactive), nobody else appears, and active + inactive = roster.length.
C2_EveryPlayerExactlyOnce ==
    pc = "done" =>
        /\ \A n \in AthletePos : ordered[n].idx \in RosterIdx
        /\ Cardinality(ActivePos) + Cardinality(InactivePos) = Len(roster)
        /\ \A i \in RosterIdx : Cardinality(PosOf(i)) = 1

\* C5: a player who alone wears "0" is in slot 90, alone wears "00" in slot 99,
\* alone wears one of "1".."98" in the slot of that number; the displayed jersey
\* is the player's jersey text.
C5_NaturalSlot(j) ==
    IF j = <<"0">> THEN 90
    ELSE IF j = <<"0", "0">> THEN 99
    ELSE IF \E n \in 1..98 : ToStr(n) = j THEN CHOOSE n \in 1..98 : ToStr(n) = j
    ELSE 0

C5_UniqueJerseyInOwnSlot ==
    pc = "done" =>
        \A i \in RosterIdx :
            (/\ C5_NaturalSlot(roster[i].number) # 0
             /\ \A k \in RosterIdx \ {i} : roster[k].number # roster[i].number)
            => /\ PosOf(i) # {}
               /\ SlotOf(i) = C5_NaturalSlot(roster[i].number)
               /\ \A n \in PosOf(i) : ordered[n].display = roster[i].number

\* the parsed jersey numbers of the roster
C6_Nums == Tuple([k \in RosterIdx |-> parseInt(roster[k].number)])
C6_HasStats(i) == \E n \in PosOf(i) : ordered[n].stat # 0
C6_Queued(i) == \E q \in 1..Len(needsSlot) : needsSlot[q] = i

\* C6: football, two or more players sharing a jersey whose natural slot is
\* valid: the holder of the natural slot is one of them, it has matched stats
\* whenever one of them has, and all the others are in the queue.
C6_StatsPreferredForNaturalSlot ==
    (pc = "done" /\ sport = "football") =>
        LET nums == C6_Nums
        IN  \A i \in RosterIdx :
                LET group == {k \in RosterIdx : nums[k] = nums[i]}
                IN  (nums[i] \in 1..99 /\ Cardinality(group) >= 2) =>
                        \E w \in group :
                            /\ SlotOf(w) = nums[i]
                            /\ (\E g \in group : C6_HasStats(g)) => C6_HasStats(w)
                            /\ \A g \in group \ {w} : C6_Queued(g)
                            /\ ~C6_Queued(w)

\* the later of two players wearing "7" has the stats and takes slot 7
C6_Witness ==
    /\ pc = "done"
    /\ sport = "football"
    /\ \E i, j \in RosterIdx :
        /\ i < j
        /\ roster[i].number = <<"7">>
        /\ roster[j].number = <<"7">>
        /\ ~C6_HasStats(i)
        /\ C6_HasStats(j)
        /\ SlotOf(j) = 7
        /\ C6_Queued(i)

\* the slots taken before the q-th queued player is processed
C7_TakenBefore(q) ==
    {ordered[n].slot : n \in {m \in ActivePos : ~C6_Queued(ordered[m].idx)}}
    \cup ({SlotOf(needsSlot[p]) : p \in 1..(q - 1)} \ {-1})

\* C7: football: a player not queued holds the slot of its own jersey number;
\* the q-th queued player holds the lowest slot of 1..99 free after the natural
\* assignments and the q-1 queued players before it, and is inactive (-1) only
\* if none is free; the inactive athletes come after all active ones.
C7_QueuedGetLowestFreeSlot ==
    (pc = "done" /\ sport = "football") =>
        /\ \A n \in AthletePos :
            \/ C6_Queued(ordered[n].idx)
            \/ ordered[n].slot = parseInt(roster[ordered[n].idx].number)
        /\ \A q \in 1..Len(needsSlot) :
            LET free == (1..99) \ C7_TakenBefore(q)
            IN  SlotOf(needsSlot[q]) = IF free = {} THEN -1 ELSE Min(free)
        /\ \A m \in InactivePos : \A n \in ActivePos : n < m

\* one queued player took the last free slot and the next one is inactive
C7_Witness ==
    /\ pc = "done"
    /\ sport = "football"
    /\ \E p, q \in 1..Len(needsSlot) :
        /\ p < q
        /\ SlotOf(needsSlot[p]) \in 1..99
        /\ SlotOf(needsSlot[q]) = -1
        /\ Cardinality(ActivePos) = 99

\* C8: football: of two queued players the one earlier in the roster is served
\* first: it gets the lower slot, is never inactive while the later one is
\* active, and precedes it in the inactive list.
C8_QueuedServedInRosterOrder ==
    (pc = "done" /\ sport = "football") =>
        \A a, b \in RosterIdx :
            (a < b /\ C6_Queued(a) /\ C6_Queued(b)) =>
                /\ SlotOf(a) = -1 => SlotOf(b) = -1
                /\ (SlotOf(a) # -1 /\ SlotOf(b) # -1) => SlotOf(a) < SlotOf(b)
                /\ (SlotOf(a) = -1 /\ SlotOf(b) = -1) =>
                        \A m \in PosOf(a), n \in PosOf(b) : m < n

-----------------------------------------------------------------------------
(* Properties of jerseyToRow (checked under SpecJersey)                     *)

\* C3: jerseyToRow returns 90 for "0", 99 for "00", n for the texts "1".."98",
\* and 0 for every other text.
C3_JerseyToRowBitExact ==
    pc = "done" => row = C5_NaturalSlot(jersey)

\* C4: two different jersey texts of {"0", "00", "1", ..., "98"} never map to
\* the same slot.
C4_InjectiveOnDomain ==
    (pc = "done" /\ jersey \in JerseyDomain /\ jersey2 \in JerseyDomain /\ jersey # jersey2)
        => row # row2

\* C4 (amended): two different jersey texts of the domain map to different
\* slots unless they are "0" and "90", which both map to slot 90.
C4_InjectiveExceptZeroAndNinety ==
    (pc = "done" /\ jersey \in JerseyDomain /\ jersey2 \in JerseyDomain /\ jersey # jersey2)
        => \/ row # row2
           \/ {jersey, jersey2} = {<<"0">>, <<"9", "0">>} /\ row = 90 /\ row2 = 90

C4_Witness ==
    /\ pc = "done"
    /\ jersey = <<"0">>
    /\ jersey2 = <<"0", "0">>
    /\ row = 90
    /\ row2 = 99

-----------------------------------------------------------------------------
(* Properties of the matcher (checked under SpecMatch)                      *)

\* a occurs in b as a run of consecutive characters
C9_Within(a, b) == \E i \in 1..(Len(b) + 1), j \in 0..Len(b) : SubSeq(b, i, j) = a
\* equal, or one a substring of the other
C9_PartMatches(a, b) == a = b \/ C9_Within(a, b) \/ C9_Within(b, a)

\* C9: when the normalized jerseys of the roster player and of the stat record
\* are equal and the roster first name or the roster last name matches the
\* corresponding part of the stat name after normalization, primaryMatch is true.
C9_Phase1Complete ==
    (pc = "done" /\ Len(allStats) > 0) =>
        LET p == rosterPlayer
            st == allStats[1]
        IN  (/\ normalizeJersey(p.number) = normalizeJersey(st.number)
             /\ \/ C9_PartMatches(normalizeName(p.firstName),
                                  normalizeName(extractFirstName(st.name)))
                \/ C9_PartMatches(normalizeName(p.lastName),
                                  normalizeName(extractLastName(st.name))))
            => primaryOk

\* roster {Mike, Smith, "23"} against stat {"M. Smith", "23"}
C9_Witness ==
    /\ pc = "done"
    /\ rosterPlayer = [firstName |-> <<"M", "i", "k", "e">>, lastName |-> <<"S", "m", "i", "t", "h">>, number |-> <<"2", "3">>]
    /\ Len(allStats) = 1
    /\ allStats[1] = [number |-> <<"2", "3">>, name |-> <<"M", ".", " ", "S", "m", "i", "t", "h">>]
    /\ primaryOk

\* C10: when the normalized jerseys differ and first and last name are exactly
\* equal after normalization, primaryMatch is false for the pair and
\* findMatchingStats on the list holding only that record returns it.
C10_Phase2OnExactNames ==
    (pc = "done" /\ Len(allStats) = 1) =>
        LET p == rosterPlayer
            st == allStats[1]
        IN  (/\ normalizeJersey(p.number) # normalizeJersey(st.number)
             /\ normalizeName(p.firstName) = normalizeName(extractFirstName(st.name))
             /\ normalizeName(p.lastName) = normalizeName(extractLastName(st.name)))
            => (~primaryOk /\ matched = 1)

\* roster {Mike, Smith, "23"} against stat {"Smith, Mike", "0"}
C10_Witness ==
    /\ pc = "done"
    /\ rosterPlayer = [firstName |-> <<"M", "i", "k", "e">>, lastName |-> <<"S", "m", "i", "t", "h">>, number |-> <<"2", "3">>]
    /\ allStats = <<[number |-> <<"0">>, name |-> <<"S", "m", "i", "t", "h", ",", " ", "M", "i", "k", "e">>]>>
    /\ ~primaryOk
    /\ matched = 1

-----------------------------------------------------------------------------
(* Properties of findMatchingStats on a list (checked under SpecMatch)      *)

\* record i of the list passes Phase 1: same normalized jersey and a first or
\* last name part that matches
C11_Phase1(i) ==
    /\ normalizeJersey(rosterPlayer.number) = normalizeJersey(allStats[i].number)
    /\ \/ C9_PartMatches(normalizeName(rosterPlayer.firstName),
                         normalizeName(extractFirstName(allStats[i].name)))
       \/ C9_PartMatches(normalizeName(rosterPlayer.lastName),
                         normalizeName(extractLastName(allStats[i].name)))
\* record i passes Phase 2: different normalized jersey, first and last name equal
C11_Phase2(i) ==
    /\ normalizeJersey(rosterPlayer.number) # normalizeJersey(allStats[i].number)
    /\ normalizeName(rosterPlayer.firstName) = normalizeName(extractFirstName(allStats[i].name))
    /\ normalizeName(rosterPlayer.lastName) = normalizeName(extractLastName(allStats[i].name))
C11_StatPos == 1..Len(allStats)

\* C11: findMatchingStats returns the first record of the list that passes
\* Phase 1 if any record does (even behind a Phase 2 candidate), otherwise the
\* first record that passes Phase 2, and undefined when no record passes
\* either phase or the list is empty.
C11_PhasesInOrder ==
    pc = "done" =>
        IF \E i \in C11_StatPos : C11_Phase1(i)
        THEN /\ matched \in C11_StatPos
             /\ C11_Phase1(matched)
             /\ \A k \in 1..(matched - 1) : ~C11_Phase1(k)
        ELSE IF \E i \in C11_StatPos : C11_Phase2(i)
        THEN /\ matched \in C11_StatPos
             /\ C11_Phase2(matched)
             /\ \A k \in 1..(matched - 1) : ~C11_Phase2(k)
        ELSE matched = 0

\* a Phase 2 candidate stands before the Phase 1 record, which is returned
C11_Witness ==
    /\ pc = "done"
    /\ Len(allStats) = 2
    /\ C11_Phase2(1)
    /\ ~C11_Phase1(1)
    /\ C11_Phase1(2)
    /\ matched = 2

-----------------------------------------------------------------------------
(* Stat records in the output of the slot assigners (checked under SpecRoster) *)

\* C12: in the output of a roster merge no stat record is attached to two
\* different roster players.
C12_StatRecordUsedOnce ==
    pc = "done" =>
        \A n, m \in AthletePos :
            (ordered[n].idx # ordered[m].idx /\ ordered[n].stat # 0)
                => ordered[n].stat # ordered[m].stat

-----------------------------------------------------------------------------
(* src/unnamed/part_014 and src/unnamed/part_000: display rows              *)

\* bound on the number of occupied slots of a displayed array
MaxOccupied == 4

\* a display row: a gap {type: 'gap', count, startRow} or a row of the array
GapRow(count, startRow) == [type |-> "gap", count |-> count, startRow |-> startRow]
DisplayRow(slot, text, idx) == [type |-> "row", slot |-> slot, display |-> text, idx |-> idx]

GapThreshold_six == 5 + 1

\* runs of at least this many empty slots are collapsed
GapThreshold == 5

\* the rows pushed for a pending gap of fewer than 5 slots:
\* orderedData.find(r => r.row === gapStart + i), pushed when found
emptyRowsOfGap(orderedData, gapStart, gapCount) ==
    The({Tuple([n \in 1..Len(found) |->
                 DisplayRow(orderedData[found[n]].slot, orderedData[found[n]].display,
                            orderedData[found[n]].idx)]) :
         found \in {SelectSeq(
                      Tuple([i \in 1..gapCount |->
                               Find({k \in 1..Len(orderedData) :
                                       orderedData[k].slot = gapStart + (i - 1)})]),
                      LAMBDA k : k # 0)}})

\* the rows a pending gap contributes when it is flushed
flushGap(orderedData, gapStart, gapCount) ==
    IF gapCount >= GapThreshold THEN <<GapRow(gapCount, gapStart)>>
    ELSE IF gapCount > 0 THEN emptyRowsOfGap(orderedData, gapStart, gapCount)
    ELSE <<>>

\* one iteration of the loop: st = [display, gapStart, gapCount]
displayStep(st, orderedData, n) ==
    IF orderedData[n].idx = 0
    THEN IF st.gapStart = -1
         THEN [display |-> st.display, gapStart |-> orderedData[n].slot, gapCount |-> 1]
         ELSE [display |-> st.display, gapStart |-> st.gapStart, gapCount |-> st.gapCount + 1]
    ELSE IF st.gapCount > 0
         THEN [display |-> Append(st.display \o flushGap(orderedData, st.gapStart, st.gapCount),
                                  DisplayRow(orderedData[n].slot, orderedData[n].display,
                                             orderedData[n].idx)),
               gapStart |-> -1, gapCount |-> 0]
         ELSE [display |-> Append(st.display,
                                  DisplayRow(orderedData[n].slot, orderedData[n].display,
                                             orderedData[n].idx)),
               gapStart |-> st.gapStart, gapCount |-> st.gapCount]

\* the loop over orderedData[lo..hi] in order (the range is halved and the
\* first half computed before the second)
RECURSIVE displayLoop(_, _, _, _)
displayLoop(st, orderedData, lo, hi) ==
    IF lo > hi THEN st
    ELSE IF lo = hi THEN displayStep(st, orderedData, lo)
    ELSE The({The({displayLoop(left, orderedData, mid + 1, hi) :
                   left \in {displayLoop(st, orderedData, lo, mid)}}) :
              mid \in {(lo + hi) \div 2}})

\* createDisplayRows of lib/utils/display-rows (basketball, soccer, volleyball)
createDisplayRows(orderedData) ==
    The({st.display \o flushGap(orderedData, st.gapStart, st.gapCount) :
         st \in {displayLoop([display |-> <<>>, gapStart |-> -1, gapCount |-> 0],
                             orderedData, 1, Len(orderedData))}})

\* football: the player shown in a slot, as a position in orderedPlayers (0 for
\* none): the last player with that slot (>= 1) that passes the filter of the tab
footballOccupant(orderedPlayers, filterTab, slot) ==
    The({IF hits = {} THEN 0 ELSE CHOOSE k \in hits : \A other \in hits : other <= k :
         hits \in {{k \in 1..Len(orderedPlayers) :
                      /\ orderedPlayers[k].slot >= 1
                      /\ orderedPlayers[k].slot = slot
                      /\ (filterTab = "stats" => orderedPlayers[k].stat # 0)}}})

\* football: the empty rows pushed for a pending gap of fewer than 5 slots in
\* the middle of the table: the slot number as text, "0" for 90 and "00" for 99
footballEmptyRows(gapStart, gapCount) ==
    [i \in 1..gapCount |->
        DisplayRow(gapStart + (i - 1),
                   IF gapStart + (i - 1) = 99 THEN <<"0", "0">>
                   ELSE IF gapStart + (i - 1) = 90 THEN <<"0">>
                   ELSE ToStr(gapStart + (i - 1)),
                   0)]

\* football: one iteration of the loop over the slots 1..99
footballDisplayStep(st, orderedPlayers, filterTab, slot) ==
    The({IF player = 0
         THEN IF st.gapStart = -1
              THEN [display |-> st.display, gapStart |-> slot, gapCount |-> 1]
              ELSE [display |-> st.display, gapStart |-> st.gapStart,
                    gapCount |-> st.gapCount + 1]
         ELSE [display |->
                 Append(st.display
                          \o (IF st.gapCount >= GapThreshold
                              THEN <<GapRow(st.gapCount, st.gapStart)>>
                              ELSE IF st.gapCount > 0
                              THEN footballEmptyRows(st.gapStart, st.gapCount)
                              ELSE <<>>),
                        DisplayRow(slot, orderedPlayers[player].display,
                                   orderedPlayers[player].idx)),
               gapStart |-> IF st.gapCount > 0 THEN -1 ELSE st.gapStart,
               gapCount |-> 0] :
         player \in {footballOccupant(orderedPlayers, filterTab, slot)}})

RECURSIVE footballDisplayLoop(_, _, _, _, _)
footballDisplayLoop(st, orderedPlayers, filterTab, lo, hi) ==
    IF lo > hi THEN st
    ELSE IF lo = hi THEN footballDisplayStep(st, orderedPlayers, filterTab, lo)
    ELSE The({The({footballDisplayLoop(left, orderedPlayers, filterTab, mid + 1, hi) :
                   left \in {footballDisplayLoop(st, orderedPlayers, filterTab, lo, mid)}}) :
              mid \in {(lo + hi) \div 2}})

\* createDisplayRows of the football view; the rows of a final gap of fewer
\* than 5 slots carry an empty text
createFootballDisplayRows(orderedPlayers, filterTab) ==
    The({st.display
           \o (IF st.gapCount >= GapThreshold THEN <<GapRow(st.gapCount, st.gapStart)>>
               ELSE IF st.gapCount > 0
               THEN [i \in 1..st.gapCount |-> DisplayRow(st.gapStart + (i - 1), <<>>, 0)]
               ELSE <<>>) :
         st \in {footballDisplayLoop([display |-> <<>>, gapStart |-> -1, gapCount |-> 0],
                                     orderedPlayers, filterTab, 1, 99)}})

-----------------------------------------------------------------------------
(* Display rows of an ordered array (SpecDisplay)                           *)

\* the slots a displayed array may have a player in
DisplayCandidates == {1, 2, 6, 9, 17, 18, 23, 29, 93, 94, 99}
\* the candidates whose player has a stat record
DisplayStatSlots == {2, 9, 17, 23, 94, 99}
OccupiedSets == {S \in SUBSET DisplayCandidates : Cardinality(S) <= MaxOccupied}

\* the array returned by a row-based assigner with players in the slots S
rowsWithPlayers(S) ==
    [i \in 1..99 |->
        [slot |-> i, display |-> emptyRows[i].value.display,
         idx |-> IF i \in S THEN i ELSE 0,
         stat |-> IF i \in S /\ i \in DisplayStatSlots THEN 1 ELSE 0]]

\* the list returned by createOrderedFootballRoster with players in the slots S
footballPlayersIn(S) ==
    SelectSeq(Tuple(rowsWithPlayers(S)), LAMBDA r : r.idx # 0)

InitDisplay ==
    /\ pc = "done"
    /\ \E S \in OccupiedSets :
        \/ sport = "basketball" /\ ordered = Tuple(rowsWithPlayers(S))
        \/ sport = "football" /\ ordered = footballPlayersIn(S)
    /\ roster = <<>>
    /\ playerStats = <<>>
    /\ goalieStats = <<>>
    /\ needsSlot = <<>>
    /\ DisplayIdle
    /\ IdleExceptDisplay

\* the basketball, soccer and volleyball views: createDisplayRows(orderedData)
ShowRows ==
    /\ pc = "done"
    /\ sport # "football"
    /\ display' = createDisplayRows(ordered)
    /\ pc' = "displayed"
    /\ UNCHANGED <<tab, rosterVars, exceptDisplay>>

\* the football view: rosterDisplayRows (every player) or statsDisplayRows
\* (the players with stats)
ShowFootballRows ==
    /\ pc = "done"
    /\ sport = "football"
    /\ \E t \in {"roster", "stats"} :
        /\ tab' = t
        /\ display' = createFootballDisplayRows(ordered, t)
    /\ pc' = "displayed"
    /\ UNCHANGED <<rosterVars, exceptDisplay>>

NextDisplay == ShowRows \/ ShowFootballRows

SpecDisplay == InitDisplay /\ [][NextDisplay]_vars

-----------------------------------------------------------------------------
(* Properties of the display rows (checked under SpecDisplay)               *)

\* the slots shown as occupied: a player, on the stats tab one with stats
C13_Occupied ==
    {s \in 1..99 : \E n \in 1..Len(ordered) :
        /\ ordered[n].slot = s
        /\ ordered[n].idx # 0
        /\ (tab = "stats" => ordered[n].stat # 0)}
\* the first slots of the maximal runs of slots outside occ
C13_RunStarts(occ) == {a \in 1..99 : a \notin occ /\ (a = 1 \/ (a - 1) \in occ)}
\* the last slot of the run that starts at a
C13_RunEnd(occ, a) ==
    CHOOSE b \in a..99 : /\ \A s \in a..b : s \notin occ
                         /\ (b = 99 \/ (b + 1) \in occ)
C13_DisplayPos == 1..Len(display)
C13_Gaps(a) == {n \in C13_DisplayPos : display[n].type = "gap" /\ display[n].startRow = a}
C13_RowsOf(s) == {n \in C13_DisplayPos : display[n].type = "row" /\ display[n].slot = s}
C13_Key(n) == IF display[n].type = "gap" THEN display[n].startRow ELSE display[n].slot

\* C13: every maximal run of 5 or more empty slots is shown as exactly one gap
\* row with the run's length and first slot, every shorter run as one row per
\* slot, and the occupied rows are all kept, the whole in slot order.
C13_GapCollapsing ==
    pc = "displayed" =>
        LET occ == C13_Occupied
        IN  /\ \A a \in C13_RunStarts(occ) :
                LET b == C13_RunEnd(occ, a)
                IN  IF b - a + 1 >= 5
                    THEN /\ Cardinality(C13_Gaps(a)) = 1
                         /\ \A n \in C13_Gaps(a) : display[n].count = b - a + 1
                         /\ \A s \in a..b : C13_RowsOf(s) = {}
                    ELSE \A s \in a..b :
                            /\ Cardinality(C13_RowsOf(s)) = 1
                            /\ \A n \in C13_RowsOf(s) : display[n].idx = 0
                            /\ C13_Gaps(s) = {}
            /\ \A s \in occ :
                /\ Cardinality(C13_RowsOf(s)) = 1
                /\ \A n \in C13_RowsOf(s) : display[n].idx # 0
                /\ C13_Gaps(s) = {}
            /\ \A n \in C13_DisplayPos : n < Len(display) => C13_Key(n) < C13_Key(n + 1)

\* slots 10..16 empty between two players give one gap row {7, 10}, and the
\* three empty slots 3..5 stay three rows
C13_Witness ==
    /\ pc = "displayed"
    /\ {2, 6, 9, 17} \subseteq C13_Occupied
    /\ \A s \in (3..5) \cup (10..16) : s \notin C13_Occupied
    /\ \E n \in C13_DisplayPos :
        display[n].type = "gap" /\ display[n].count = 7 /\ display[n].startRow = 10
    /\ \A s \in 3..5 : Cardinality(C13_RowsOf(s)) = 1

-----------------------------------------------------------------------------
(* JavaScript values of the cat-stat selectors                              *)

\* a number value and a string value of a CatStat
JsNum(n) == [type |-> "number", num |-> n]
JsStr(s) == [type |-> "string", str |-> s]

RECURSIVE Pow10(_)
Pow10(k) == IF k = 0 THEN 1 ELSE 10 * Pow10(k - 1)

RECURSIVE GCD(_, _)
GCD(a, b) == IF b = 0 THEN a ELSE GCD(b, a % b)

\* the number n/d (d > 0) as a fraction in lowest terms
Frac(n, d) ==
    The({[num |-> n \div g, den |-> d \div g] : g \in {GCD(IF n < 0 THEN 0 - n ELSE n, d)}})

\* parseFloat(s) as the fraction num/den; den = 0 stands for NaN. Leading white
\* space is skipped, then an optional sign, digits, and an optional "." with
\* digits. (The alphabets used hold no exponent and no "Infinity".)
parseFloat(s) ==
    LET t == SkipSpaces(s)
        neg == t # <<>> /\ Head(t) = "-"
        u == IF t # <<>> /\ Head(t) \in {"-", "+"} THEN Tail(t) ELSE t
        int == DigitPrefix(u)
        rest == SubSeq(u, Len(int) + 1, Len(u))
        frac == IF rest # <<>> /\ Head(rest) = "." THEN DigitPrefix(Tail(rest)) ELSE <<>>
    IN  IF int = <<>> /\ frac = <<>> THEN [num |-> 0, den |-> 0]
        ELSE Frac(IF neg THEN 0 - DecValue(int \o frac) ELSE DecValue(int \o frac),
                  Pow10(Len(frac)))

\* x > n for a parsed number x and an integer n; false for NaN
GreaterThan(x, n) == x.den > 0 /\ x.num > n * x.den

\* {label: '', value: ''}
blankStat == [label |-> "", value |-> JsStr(<<>>)]

\* while (stats.length < n) stats.push({label: '', value: ''})
padStats(stats, n) ==
    stats \o [i \in 1..(IF Len(stats) < n THEN n - Len(stats) ELSE 0) |-> blankStat]

-----------------------------------------------------------------------------
(* src/unnamed/part_012: soccer cat stats                                   *)

FIELD_PLAYER_PRIORITY ==
    <<[key |-> "g", label |-> "Goals"], [key |-> "a", label |-> "Assists"],
      [key |-> "pts", label |-> "Pts"], [key |-> "sog", label |-> "SOG"],
      [key |-> "sh", label |-> "SH"]>>

\* the loop over FIELD_PLAYER_PRIORITY from entry i on, stats the list so far
RECURSIVE fieldPlayerLoop(_, _, _)
fieldPlayerLoop(p, stats, i) ==
    IF i > Len(FIELD_PLAYER_PRIORITY) THEN stats
    ELSE IF p[FIELD_PLAYER_PRIORITY[i].key] > 0
    THEN IF Len(stats) + 1 >= 3
         THEN Append(stats, [label |-> FIELD_PLAYER_PRIORITY[i].label,
                             value |-> JsNum(p[FIELD_PLAYER_PRIORITY[i].key])])
         ELSE fieldPlayerLoop(p,
                              Append(stats, [label |-> FIELD_PLAYER_PRIORITY[i].label,
                                             value |-> JsNum(p[FIELD_PLAYER_PRIORITY[i].key])]),
                              i + 1)
    ELSE fieldPlayerLoop(p, stats, i + 1)

getFieldPlayerCatStats_keepZeros(p) ==
    [i \in 1..3 |-> [label |-> FIELD_PLAYER_PRIORITY[i].label,
                     value |-> JsNum(p[FIELD_PLAYER_PRIORITY[i].key])]]

getFieldPlayerCatStats(p) == padStats(fieldPlayerLoop(p, <<>>, 1), 3)

getGoalieCatStats(goalie) ==
    <<[label |-> "Saves", value |-> JsNum(goalie.save)],
      [label |-> "GA", value |-> JsNum(goalie.ga)],
      [label |-> "SHO", value |-> JsNum(goalie.sho)]>>

-----------------------------------------------------------------------------
(* src/lib/volleyball/cat-stats.ts                                          *)

STAT_PRIORITY ==
    <<[key |-> "pts", label |-> "PTS", isDecimal |-> TRUE],
      [key |-> "k", label |-> "Kills", isDecimal |-> FALSE],
      [key |-> "a", label |-> "Assists", isDecimal |-> FALSE],
      [key |-> "dig", label |-> "Digs", isDecimal |-> FALSE],
      [key |-> "blk", label |-> "BLK", isDecimal |-> TRUE],
      [key |-> "sa", label |-> "SA", isDecimal |-> FALSE]>>

\* the loop over STAT_PRIORITY from entry i on; a decimal field (a string) is
\* read with parseFloat and pushed as the raw string, any other field (a
\* number) is pushed as the number
RECURSIVE volleyballLoop(_, _, _)
volleyballLoop(stats, result, i) ==
    IF i > Len(STAT_PRIORITY) \/ Len(result) >= 3 THEN result
    ELSE IF STAT_PRIORITY[i].isDecimal
    THEN IF GreaterThan(parseFloat(stats[STAT_PRIORITY[i].key]), 0)
         THEN volleyballLoop(stats,
                             Append(result, [label |-> STAT_PRIORITY[i].label,
                                             value |-> JsStr(stats[STAT_PRIORITY[i].key])]),
                             i + 1)
         ELSE volleyballLoop(stats, result, i + 1)
    ELSE IF stats[STAT_PRIORITY[i].key] > 0
    THEN volleyballLoop(stats,
                        Append(result, [label |-> STAT_PRIORITY[i].label,
                                        value |-> JsNum(stats[STAT_PRIORITY[i].key])]),
                        i + 1)
    ELSE volleyballLoop(stats, result, i + 1)

getVolleyballCatStats(stats) == padStats(volleyballLoop(stats, <<>>, 1), 3)

-----------------------------------------------------------------------------
(* The priority selectors applied to one stat record (SpecPriority)         *)

\* largest value of a counted stat
MaxStatValue == 2

StatValues == 0..MaxStatValue
\* the decimal texts of a volleyball record: "0.0", "0.5", "12.0" and ""
DecimalTexts == {<<"0", ".", "0">>, <<"0", ".", "5">>, <<"1", "2", ".", "0">>, <<>>}

SoccerPlayers ==
    [g : StatValues, a : StatValues, pts : StatValues, sog : StatValues, sh : StatValues]
    \cup {[g |-> 2, a |-> 0, pts |-> 4, sog |-> 5, sh |-> 7]}
SoccerGoalies == [save : StatValues, ga : StatValues, sho : StatValues]
VolleyballPlayers ==
    [pts : DecimalTexts, k : StatValues, a : StatValues, dig : StatValues,
     blk : DecimalTexts, sa : StatValues]

InitPriority ==
    /\ pc = "input"
    /\ \/ catSport = "soccer" /\ catPlayer \in SoccerPlayers
       \/ catSport = "goalie" /\ catPlayer \in SoccerGoalies
       \/ catSport = "volleyball" /\ catPlayer \in VolleyballPlayers
    /\ catCount = 3
    /\ catStats = <<>>
    /\ category = ""
    /\ IdleExceptCat

SelectFieldPlayer ==
    /\ pc = "input"
    /\ catSport = "soccer"
    /\ catStats' = getFieldPlayerCatStats(catPlayer)
    /\ pc' = "done"
    /\ UNCHANGED <<catSport, catPlayer, catCount, category, exceptCat>>

SelectGoalie ==
    /\ pc = "input"
    /\ catSport = "goalie"
    /\ catStats' = getGoalieCatStats(catPlayer)
    /\ pc' = "done"
    /\ UNCHANGED <<catSport, catPlayer, catCount, category, exceptCat>>

SelectVolleyball ==
    /\ pc = "input"
    /\ catSport = "volleyball"
    /\ catStats' = getVolleyballCatStats(catPlayer)
    /\ pc' = "done"
    /\ UNCHANGED <<catSport, catPlayer, catCount, category, exceptCat>>

NextPriority == SelectFieldPlayer \/ SelectGoalie \/ SelectVolleyball

SpecPriority == InitPriority /\ [][NextPriority]_vars

-----------------------------------------------------------------------------
(* Properties of the priority selectors (checked under SpecPriority)        *)

\* the keys of the priority list whose value in the record is greater than zero
C14_SoccerQualifying ==
    SelectSeq(<<"g", "a", "pts", "sog", "sh">>, LAMBDA k : catPlayer[k] > 0)
C14_SoccerLabel(k) ==
    CASE k = "g" -> "Goals" [] k = "a" -> "Assists" [] k = "pts" -> "Pts"
      [] k = "sog" -> "SOG" [] k = "sh" -> "SH"
C14_VolleyballPositive(k) ==
    IF k \in {"pts", "blk"} THEN GreaterThan(parseFloat(catPlayer[k]), 0)
    ELSE catPlayer[k] > 0
C14_VolleyballQualifying ==
    SelectSeq(<<"pts", "k", "a", "dig", "blk", "sa">>, C14_VolleyballPositive)
C14_VolleyballLabel(k) ==
    CASE k = "pts" -> "PTS" [] k = "k" -> "Kills" [] k = "a" -> "Assists"
      [] k = "dig" -> "Digs" [] k = "blk" -> "BLK" [] k = "sa" -> "SA"
C14_Value(k) ==
    IF catSport = "volleyball" /\ k \in {"pts", "blk"} THEN JsStr(catPlayer[k])
    ELSE JsNum(catPlayer[k])

\* C14: the soccer field-player and volleyball selectors return exactly three
\* entries: the first three stats of the priority list with a value above
\* zero, in priority order, then blank entries; a soccer goalie gets Saves,
\* GA, SHO.
C14_FirstThreeNonZero ==
    pc = "done" =>
        /\ Len(catStats) = 3
        /\ catSport = "soccer" =>
            \A i \in 1..3 :
                IF i <= Len(C14_SoccerQualifying)
                THEN /\ catStats[i].label = C14_SoccerLabel(C14_SoccerQualifying[i])
                     /\ catStats[i].value = C14_Value(C14_SoccerQualifying[i])
                ELSE catStats[i].label = "" /\ catStats[i].value = JsStr(<<>>)
        /\ catSport = "volleyball" =>
            \A i \in 1..3 :
                IF i <= Len(C14_VolleyballQualifying)
                THEN /\ catStats[i].label = C14_VolleyballLabel(C14_VolleyballQualifying[i])
                     /\ catStats[i].value = C14_Value(C14_VolleyballQualifying[i])
                ELSE catStats[i].label = "" /\ catStats[i].value = JsStr(<<>>)
        /\ catSport = "goalie" =>
            /\ <<catStats[1].label, catStats[2].label, catStats[3].label>>
                 = <<"Saves", "GA", "SHO">>
            /\ <<catStats[1].value, catStats[2].value, catStats[3].value>>
                 = <<JsNum(catPlayer.save), JsNum(catPlayer.ga), JsNum(catPlayer.sho)>>

\* {g:2, a:0, pts:4, sog:5, sh:7} yields Goals 2, Pts 4, SOG 5
C14_Witness ==
    /\ pc = "done"
    /\ catSport = "soccer"
    /\ catPlayer = [g |-> 2, a |-> 0, pts |-> 4, sog |-> 5, sh |-> 7]
    /\ catStats = <<[label |-> "Goals", value |-> JsNum(2)],
                    [label |-> "Pts", value |-> JsNum(4)],
                    [label |-> "SOG", value |-> JsNum(5)]>>

-----------------------------------------------------------------------------
(* src/unnamed/part_008: basketball cat stats                               *)

\* a RankedStat; the score is the fraction score.num / score.den
RankedStat(label, displayValue, score, priority) ==
    [label |-> label, displayValue |-> displayValue, score |-> score, priority |-> priority]

\* `${Math.floor(pct * 100)}%` for a parsed fraction pct > 0
percentText(pct) == ToStr((pct.num * 100) \div pct.den) \o <<"%">>

\* (n / d).toFixed(1): one decimal, rounded half up
toFixed1(n, d) ==
    The({ToStr(tenths \div 10) \o <<".">> \o ToStr(tenths % 10) :
         tenths \in {(20 * n + d) \div (2 * d)}})

\* x % 1 === 0 ? x.toString() : x.toFixed(1) for x = n / d
perGameText(n, d) == IF n % d = 0 THEN ToStr(n \div d) ELSE toFixed1(n, d)

\* the candidates in the order they are pushed
basketballCandidates(p) ==
    The({
        (IF GreaterThan(ptsAvg, 0)
         THEN <<RankedStat("PPG", p.ptsAvg, ptsAvg, 0)>> ELSE <<>>)
        \o (IF GreaterThan(threePct, 0)
            THEN <<RankedStat("3-PT FG", percentText(threePct),
                              Frac(threePct.num * 10, threePct.den), 1)>>
            ELSE <<>>)
        \o (IF GreaterThan(fgPct, 0)
            THEN <<RankedStat("FG", percentText(fgPct),
                              Frac(fgPct.num * 10, fgPct.den), 2)>>
            ELSE <<>>)
        \o (IF GreaterThan(ftPct, 0)
            THEN <<RankedStat("FT", percentText(ftPct),
                              Frac(ftPct.num * 666, ftPct.den * 100), 3)>>
            ELSE <<>>)
        \o (IF gp > 0 /\ p.blk > 0
            THEN <<RankedStat("BPG", perGameText(p.blk, gp), Frac(p.blk, gp), 4)>>
            ELSE <<>>)
        \o (IF gp > 0 /\ p.stl > 0
            THEN <<RankedStat("SPG", perGameText(p.stl, gp), Frac(p.stl, gp), 5)>>
            ELSE <<>>)
        \o (IF GreaterThan(rebAvg, 0)
            THEN <<RankedStat("RPG", p.rebAvg, rebAvg, 6)>> ELSE <<>>)
        \o (IF gp > 0 /\ p.ast > 0
            THEN <<RankedStat("APG", perGameText(p.ast, gp), Frac(p.ast, gp), 7)>>
            ELSE <<>>)
        \o (IF GreaterThan(minAvg, 30)
            THEN <<RankedStat("MPG", p.minAvg,
                              Frac(minAvg.num, minAvg.den * 10), 8)>>
            ELSE <<>>) :
        ptsAvg \in {parseFloat(p.ptsAvg)},
        gp \in {IF isNaN(parseInt(p.gpGs)) THEN 0 ELSE parseInt(p.gpGs)},
        threePct \in {parseFloat(p.threeFgPct)},
        fgPct \in {parseFloat(p.fgPct)},
        ftPct \in {parseFloat(p.ftPct)},
        rebAvg \in {parseFloat(p.rebAvg)},
        minAvg \in {parseFloat(p.minAvg)}})

\* the comparator b.score - a.score || a.priority - b.priority is negative:
\* a is sorted before b
rankedBefore(a, b) ==
    \/ a.score.num * b.score.den > b.score.num * a.score.den
    \/ /\ a.score.num * b.score.den = b.score.num * a.score.den
       /\ a.priority < b.priority

\* candidates.sort(...): by score descending, then by priority ascending
sortCandidates(candidates) ==
    The({Tuple([n \in 1..Len(candidates) |->
                 candidates[CHOOSE i \in 1..Len(candidates) : rank[i] = n]]) :
         rank \in {Tuple([i \in 1..Len(candidates) |->
                     Cardinality({j \in 1..Len(candidates) :
                                    \/ rankedBefore(candidates[j], candidates[i])
                                    \/ /\ ~rankedBefore(candidates[i], candidates[j])
                                       /\ j < i}) + 1])}})

\* arr.slice(0, n) for n >= 0
sliceTo(arr, n) == SubSeq(arr, 1, IF n < Len(arr) THEN n ELSE Len(arr))

\* position of the PPG candidate in a list, 0 when absent
ppgIndex(list) == Find({i \in 1..Len(list) : list[i].label = "PPG"})

forcePpg_skip(candidates, picked, n) == picked

\* PPG is in the top 3 but not in picked: it is put in front of the first
\* n - 1 picked
forcePpg(candidates, picked, n) ==
    IF ppgIndex(sliceTo(candidates, 3)) # 0 /\ ppgIndex(picked) = 0
    THEN <<candidates[ppgIndex(candidates)]>> \o sliceTo(picked, n - 1)
    ELSE picked

\* every picked stat is a percentage and PPG is a candidate: PPG replaces the
\* last picked
forceVariety(candidates, picked) ==
    IF /\ Len(picked) > 0
       /\ \A i \in 1..Len(picked) : picked[i].label \in {"FG", "3-PT FG", "FT"}
       /\ ppgIndex(candidates) # 0
    THEN [picked EXCEPT ![Len(picked)] = candidates[ppgIndex(candidates)]]
    ELSE picked

\* PPG, when picked behind column 1, is moved to the front
pinPpg(picked) ==
    IF ppgIndex(picked) > 1
    THEN <<picked[ppgIndex(picked)]>>
         \o SelectSeq(picked, LAMBDA c : c.label # "PPG")
    ELSE picked

getBasketballCatStats(p, n) ==
    The({The({padStats([i \in 1..Len(picked) |->
                          [label |-> picked[i].label,
                           value |-> JsStr(picked[i].displayValue)]], n) :
              picked \in {pinPpg(forceVariety(candidates,
                                              forcePpg(candidates, sliceTo(candidates, n), n)))}}) :
         candidates \in {sortCandidates(basketballCandidates(p))}})

-----------------------------------------------------------------------------
(* getBasketballCatStats applied to one stat record (SpecBasketballCat)     *)

\* largest requested column count
MaxCount == 4

\* stat records of a player: averages as texts, percentages as texts with a
\* power-of-two fraction, games played 0 or 2
BasketballPlayers ==
    [ptsAvg : {<<"0", ".", "0">>, <<"2", ".", "5">>, <<"5", ".", "0">>, <<"7", ".", "5">>},
     gpGs : {<<"0", "-", "0">>, <<"2", "-", "1">>},
     threeFgPct : {<<".", "0", "0", "0">>, <<".", "5", "0", "0">>},
     fgPct : {<<".", "0", "0", "0">>, <<".", "5", "0", "0">>, <<".", "7", "5", "0">>},
     ftPct : {<<".", "0", "0", "0">>, <<".", "7", "5", "0">>},
     blk : {0, 5},
     stl : {0, 10},
     rebAvg : {<<"0", ".", "0">>, <<"5", ".", "0">>},
     ast : {0, 15},
     minAvg : {<<"1", "0", ".", "0">>, <<"3", "5", ".", "0">>}]

InitBasketballCat ==
    /\ pc = "input"
    /\ catSport = "basketball"
    /\ catPlayer \in BasketballPlayers
    /\ catCount \in 1..MaxCount
    /\ catStats = <<>>
    /\ category = ""
    /\ IdleExceptCat

SelectBasketball ==
    /\ pc = "input"
    /\ catSport = "basketball"
    /\ catStats' = getBasketballCatStats(catPlayer, catCount)
    /\ pc' = "done"
    /\ UNCHANGED <<catSport, catPlayer, catCount, category, exceptCat>>

NextBasketballCat == SelectBasketball

SpecBasketballCat == InitBasketballCat /\ [][NextBasketballCat]_vars

-----------------------------------------------------------------------------
(* Properties of getBasketballCatStats (checked under SpecBasketballCat)    *)

\* the candidates ranked ahead of PPG: a higher score, or the same score and an
\* earlier place in the priority order
C15_AheadOfPpg(cands) ==
    {j \in 1..Len(cands) :
        \E i \in 1..Len(cands) :
            /\ cands[i].label = "PPG"
            /\ \/ cands[j].score.num * cands[i].score.den
                    > cands[i].score.num * cands[j].score.den
               \/ /\ cands[j].score.num * cands[i].score.den
                       = cands[i].score.num * cands[j].score.den
                  /\ cands[j].priority < cands[i].priority}
C15_PpgInTop3(cands) ==
    /\ \E i \in 1..Len(cands) : cands[i].label = "PPG"
    /\ Cardinality(C15_AheadOfPpg(cands)) < 3

\* C15: when PPG is among the three highest-ranked candidates it is in column
\* 1 of the result, whatever the requested count; the result has exactly
\* count entries and no stat label twice.
C15_PpgPinned ==
    pc = "done" =>
        LET cands == basketballCandidates(catPlayer)
        IN  /\ Len(catStats) = catCount
            /\ C15_PpgInTop3(cands) => catStats[1].label = "PPG"
            /\ \A i, j \in 1..Len(catStats) :
                (i # j /\ catStats[i].label = catStats[j].label) => catStats[i].label = ""

\* PPG is ranked third and a single column is requested
C15_Witness ==
    /\ pc = "done"
    /\ catCount = 1
    /\ Cardinality(C15_AheadOfPpg(basketballCandidates(catPlayer))) = 2
    /\ catStats[1].label = "PPG"

-----------------------------------------------------------------------------
(* src/lib/football/cat-stats.ts: football cat stats                        *)

\* an optional section that is absent
Undefined == [undefined |-> TRUE]

CatStat(label, value) == [label |-> label, value |-> value]

\* a || b on values: 0, '' and undefined are falsy
OrElse(a, b) == IF a = JsNum(0) \/ a = JsStr(<<>>) \/ a = Undefined THEN b ELSE a

\* player.rushing?.att || 0 and player.receiving?.no || 0
attOrZero(section, field) == IF section = Undefined THEN 0 ELSE section[field]

passingStats(passing) ==
    <<CatStat("PCT", JsStr(toFixed1(passing.comp * 100, passing.att) \o <<"%">>)),
      CatStat("YDS", JsNum(passing.yds)),
      CatStat("TD", JsNum(passing.td)),
      CatStat("INT", JsNum(passing.int))>>

rushingStats(rushing) ==
    <<CatStat("CAR", JsNum(rushing.att)),
      CatStat("YDS", OrElse(JsNum(rushing.net), JsNum(rushing.gain))),
      CatStat("AVG", JsNum(rushing.avg)),
      CatStat("TD", JsNum(rushing.td))>>

receivingStats(receiving) ==
    <<CatStat("REC", JsNum(receiving.no)),
      CatStat("YDS", JsNum(receiving.yds)),
      CatStat("AVG", JsNum(receiving.avg)),
      CatStat("TD", JsNum(receiving.td))>>

defenseStats_four(defense) ==
    <<CatStat("TKLS", JsNum(defense.tot)),
      CatStat("TFL", OrElse(JsStr(defense.tfl), JsNum(0))),
      CatStat("SACKS", OrElse(JsStr(defense.sacks), JsNum(0))),
      CatStat("PBU", OrElse(JsNum(defense.pbu), JsNum(0)))>>

defenseStats(defense) ==
    <<CatStat("TKLS", JsNum(defense.tot)),
      CatStat("TFL", OrElse(JsStr(defense.tfl), JsNum(0))),
      CatStat("SACKS", OrElse(JsStr(defense.sacks), JsNum(0))),
      CatStat("PBU", OrElse(JsNum(defense.pbu), JsNum(0))),
      CatStat("INT", OrElse(JsStr(defense.int), JsNum(0)))>>

puntingStats(punting) ==
    <<CatStat("PUNTS", JsNum(punting.no)),
      CatStat("AVG", JsNum(punting.avg)),
      CatStat("LONG", JsNum(punting.long)),
      CatStat("I20", JsNum(punting.i20))>>

kickingStats(kicking) ==
    <<CatStat("FG", JsStr(NumToString(kicking.fgm) \o <<"/">> \o NumToString(kicking.fga))),
      CatStat("PCT", JsStr(NumToString(kicking.pct) \o <<"%">>)),
      CatStat("LONG", JsNum(kicking.long)),
      CatStat("PTS", JsNum(kicking.pts))>>

\* the first test of getFootballCatStats
isPassing(player) ==
    /\ player.passing # Undefined
    /\ player.passing.att > 0
    /\ \/ player.passing.att > 10
       \/ player.passing.att > attOrZero(player.rushing, "att")

\* the second test
isRushing(player) ==
    /\ player.rushing # Undefined
    /\ player.rushing.att > 0
    /\ player.rushing.att >= attOrZero(player.receiving, "no")

isReceiving(player) == player.receiving # Undefined /\ player.receiving.no > 0
isDefense(player) == player.defense # Undefined /\ player.defense.tot > 0
isPunting(player) == player.punting # Undefined /\ player.punting.no > 0
isKicking(player) == player.kicking # Undefined /\ player.kicking.fga > 0

\* the variant that tests Rushing before Passing
footballCategory_rushingFirst(player) ==
    IF isRushing(player) THEN "Rushing"
    ELSE IF isPassing(player) THEN "Passing"
    ELSE IF isReceiving(player) THEN "Receiving"
    ELSE IF isDefense(player) THEN "Defense"
    ELSE IF isPunting(player) THEN "Punting"
    ELSE IF isKicking(player) THEN "Kicking"
    ELSE "General"

\* the category getFootballCatStats returns: the first test that passes
footballCategory(player) ==
    IF isPassing(player) THEN "Passing"
    ELSE IF isRushing(player) THEN "Rushing"
    ELSE IF isReceiving(player) THEN "Receiving"
    ELSE IF isDefense(player) THEN "Defense"
    ELSE IF isPunting(player) THEN "Punting"
    ELSE IF isKicking(player) THEN "Kicking"
    ELSE "General"

footballStatsOf(player, cat) ==
    CASE cat = "Passing" -> passingStats(player.passing)
      [] cat = "Rushing" -> rushingStats(player.rushing)
      [] cat = "Receiving" -> receivingStats(player.receiving)
      [] cat = "Defense" -> defenseStats(player.defense)
      [] cat = "Punting" -> puntingStats(player.punting)
      [] cat = "Kicking" -> kickingStats(player.kicking)
      [] OTHER -> <<>>

getFootballCatStats(player) ==
    The({[category |-> cat, stats |-> footballStatsOf(player, cat)] :
         cat \in {footballCategory(player)}})

-----------------------------------------------------------------------------
(* src/unnamed/part_000: getPlayerStats of the football stats view          *)

\* the characters U+2014 and U+2013
EmDash == "u2014"
EnDash == "u2013"

\* String(value)
String(value) == IF value.type = "number" THEN NumToString(value.num) ELSE value.str

\* /^0([.\-\/]0+)?$/.test(s)
zeroPattern(s) ==
    \/ s = <<"0">>
    \/ /\ Len(s) >= 3
       /\ s[1] = "0"
       /\ s[2] \in {".", "-", "/"}
       /\ \A i \in 3..Len(s) : s[i] = "0"

\* the filter callback: TRUE when the stat is kept
nonEmptyStat(s) ==
    /\ s.label # ""
    /\ s.value # JsStr(<<>>)
    /\ s.value \notin {JsStr(<<"-">>), JsStr(<<EmDash>>), JsStr(<<EnDash>>)}
    /\ s.value # JsNum(0)
    /\ s.value # JsStr(<<"0">>)
    /\ ~zeroPattern(trim(String(s.value)))

\* for (i = 0; i < 4; i++) result.push(nonEmpty[i] || {label: '', value: ''})
firstFour(nonEmpty) ==
    [i \in 1..4 |-> IF i <= Len(nonEmpty) THEN nonEmpty[i] ELSE blankStat]

getPlayerStats(player) ==
    IF player.stats = Undefined THEN [stats |-> <<>>, category |-> ""]
    ELSE The({[stats |-> firstFour(SelectSeq(cs.stats, nonEmptyStat)),
               category |-> cs.category] :
              cs \in {getFootballCatStats(player.stats)}})

-----------------------------------------------------------------------------
(* inputs: football stat records                                            *)

PassingOf(att) ==
    [comp |-> (2 * att) \div 3, att |-> att, int |-> att % 2,
     yds |-> 10 * att, td |-> att \div 5]
RushingOf(att) ==
    [att |-> att, gain |-> 4 * att, net |-> IF att = 3 THEN 0 ELSE 4 * att - 2,
     avg |-> IF att = 0 THEN 0 ELSE 4, td |-> att \div 5]
ReceivingOf(no) ==
    [no |-> no, yds |-> 10 * no, avg |-> IF no = 0 THEN 0 ELSE 10, td |-> no \div 8]
PuntingOf(no) ==
    [no |-> no, avg |-> IF no = 0 THEN 0 ELSE 40, long |-> IF no = 0 THEN 0 ELSE 55,
     i20 |-> no \div 4]
KickingOf(fga) ==
    [fgm |-> fga \div 2, fga |-> fga, pct |-> IF fga = 0 THEN 0 ELSE (100 * (fga \div 2)) \div fga,
     long |-> 20 * (fga \div 2), pts |-> 3 * (fga \div 2)]

PassAttempts == {0, 4, 15}
RushAttempts == {0, 3, 5, 20}
Receptions == {0, 2, 8}
Punts == {0, 4}
FieldGoalAttempts == {0, 1, 3}

DefenseRecords ==
    [tot : {0, 7},
     tfl : {<<"0", ".", "0", "-", "0">>, <<"2", ".", "0", "-", "5">>},
     sacks : {<<EmDash>>, <<"1", ".", "0", "-", "7">>},
     int : {<<"0", "-", "0">>, <<"1", "-", "2", "3">>},
     pbu : {0, 2}]

FootballStatRecords ==
    [passing : {Undefined} \cup {PassingOf(a) : a \in PassAttempts},
     rushing : {Undefined} \cup {RushingOf(a) : a \in RushAttempts},
     receiving : {Undefined} \cup {ReceivingOf(n) : n \in Receptions},
     defense : {Undefined} \cup DefenseRecords,
     punting : {Undefined} \cup {PuntingOf(n) : n \in Punts},
     kicking : {Undefined} \cup {KickingOf(a) : a \in FieldGoalAttempts}]

-----------------------------------------------------------------------------
(* Specification of the football cat stats                                  *)

InitFootballCat ==
    /\ pc = "start"
    /\ catSport = "football"
    /\ catPlayer \in {[stats |-> s] : s \in FootballStatRecords \cup {Undefined}}
    /\ catCount = 4
    /\ catStats = <<>>
    /\ category = ""
    /\ IdleExceptCat

\* getFootballCatStats(player.stats) for an athlete that has a stat record
GetFootballCatStats ==
    /\ pc = "start"
    /\ catPlayer.stats # Undefined
    /\ \E res \in {getFootballCatStats(catPlayer.stats)} :
          /\ catStats' = res.stats
          /\ category' = res.category
    /\ pc' = "classified"
    /\ UNCHANGED <<catSport, catPlayer, catCount, exceptCat>>

\* getPlayerStats(player) of the stats view
GetPlayerStats ==
    /\ pc = "start"
    /\ \E res \in {getPlayerStats(catPlayer)} :
          /\ catStats' = res.stats
          /\ category' = res.category
    /\ pc' = "displayed"
    /\ UNCHANGED <<catSport, catPlayer, catCount, exceptCat>>

NextFootballCat == GetFootballCatStats \/ GetPlayerStats

SpecFootballCat == InitFootballCat /\ [][NextFootballCat]_vars

-----------------------------------------------------------------------------
(* C16: strict priority of the football categories                          *)

C16_PassAtt == attOrZero(catPlayer.stats.passing, "att")
C16_RushAtt == attOrZero(catPlayer.stats.rushing, "att")
C16_Receptions == attOrZero(catPlayer.stats.receiving, "no")
C16_Tackles == attOrZero(catPlayer.stats.defense, "tot")
C16_Punts == attOrZero(catPlayer.stats.punting, "no")
C16_FieldGoalAttempts == attOrZero(catPlayer.stats.kicking, "fga")

\* the first four links of the chain, as the claim words them
C16_Chain(rest) ==
    IF C16_PassAtt > 10 \/ C16_PassAtt > C16_RushAtt THEN "Passing"
    ELSE IF C16_RushAtt > 0 /\ C16_RushAtt >= C16_Receptions THEN "Rushing"
    ELSE IF C16_Receptions > 0 THEN "Receiving"
    ELSE IF C16_Tackles > 0 THEN "Defense"
    ELSE rest

-----------------------------------------------------------------------------
(* C17: exactly one category, with its fixed stat list                      *)

C17_Labels ==
    [Passing |-> <<"PCT", "YDS", "TD", "INT">>,
     Rushing |-> <<"CAR", "YDS", "AVG", "TD">>,
     Receiving |-> <<"REC", "YDS", "AVG", "TD">>,
     Defense |-> <<"TKLS", "TFL", "SACKS", "PBU", "INT">>,
     Punting |-> <<"PUNTS", "AVG", "LONG", "I20">>,
     Kicking |-> <<"FG", "PCT", "LONG", "PTS">>]

C17_LabelsEmitted == [i \in 1..Len(catStats) |-> catStats[i].label]

-----------------------------------------------------------------------------
(* C18: the display stats keep every non-zero stat of the category          *)

\* a value that is zero, blank or a dash
C18_Empty(value) ==
    \/ value = JsNum(0)
    \/ /\ value.type = "string"
       /\ \/ value.str \in {<<>>, <<"-">>, <<EmDash>>, <<EnDash>>}
          \/ /\ \A i \in 1..Len(value.str) : value.str[i] \in {"0", ".", "-", "/"}
             /\ \E i \in 1..Len(value.str) : value.str[i] = "0"

C18_Kept(s) == ~C18_Empty(s.value)

\* C18: getPlayerStats shows the category's stats without the zero, blank and
\* dash values, in their order, followed only by blanks; none of the
\* non-zero stats is missing.
C18_NonZeroStatsKept ==
    (pc = "displayed" /\ catPlayer.stats # Undefined) =>
        LET kept == SelectSeq(getFootballCatStats(catPlayer.stats).stats, C18_Kept)
        IN  /\ Len(catStats) = 4
            /\ Len(kept) <= 4
            /\ \A i \in 1..4 :
                  catStats[i] = IF i <= Len(kept) THEN kept[i] ELSE blankStat

-----------------------------------------------------------------------------
(* src/lib/url/generator.ts, src/app/api/pdf/route.ts: fetch with fallback  *)

\* the longest candidate list
MaxUrls == 3

\* text.startsWith(prefix)
startsWith(text, prefix) ==
    Len(text) >= Len(prefix) /\ SubSeq(text, 1, Len(prefix)) = prefix

\* isValidPdfResponse: text.startsWith('%PDF') || text.startsWith('%pdf')
isValidPdfResponse(text) ==
    startsWith(text, <<"%", "P", "D", "F">>) \/ startsWith(text, <<"%", "p", "d", "f">>)

\* bytes[0] === 0x25 && bytes[1] === 0x50 && bytes[2] === 0x44 && bytes[3] === 0x46
isPdfMagic(bytes) ==
    /\ Len(bytes) >= 4
    /\ bytes[1] = 37 /\ bytes[2] = 80 /\ bytes[3] = 68 /\ bytes[4] = 70

\* isValidRosterPage; html is the page's length and the markers it includes
isValidRosterPage(html) ==
    LET hasTable == "<table" \in html.includes
        hasRosterContent ==
            \/ "Pos." \in html.includes
            \/ "Position" \in html.includes
            \/ "Hometown" \in html.includes
            \/ "Year" \in html.includes
        isLikelyPrintPage == html.length < 800000
        isNotHomePage == /\ "id=homepage" \notin html.includes
                         /\ "class=home-" \notin html.includes
    IN  hasTable /\ hasRosterContent /\ isLikelyPrintPage /\ isNotHomePage

\* the validity check each loop applies to the body it has read
isValidBody(kind, body) ==
    CASE kind = "fetchWithFallback" -> isValidPdfResponse(body.text)
      [] kind = "fetchStatsWithFallback" -> isPdfMagic(body.bytes)
      [] kind = "fetchRosterWithFallback" -> isValidRosterPage(body.html)
      [] kind = "soccerRoute" -> body.players > 0 \/ body.goalies > 0
      [] kind = "basketballRoute" -> body.players > 0
      [] kind = "baseballRoute" -> body.length > 100

\* what a candidate URL may answer: fetch rejects, the status is not ok,
\* reading or parsing the body throws, or a body is read
Failures ==
    {[fetch |-> "throws"], [fetch |-> "notOk"], [fetch |-> "ok", read |-> "throws"]}

Read(body) == [fetch |-> "ok", read |-> "ok", body |-> body]

Bodies(kind) ==
    CASE kind = "fetchWithFallback" ->
            {[text |-> <<"%", "P", "D", "F", "-">>], [text |-> <<"%", "p", "d", "f">>],
             [text |-> <<"<", "h", "t", "m", "l">>]}
      [] kind = "fetchStatsWithFallback" ->
            {[bytes |-> <<37, 80, 68, 70, 45>>], [bytes |-> <<37, 112, 100, 102>>],
             [bytes |-> <<37, 80>>]}
      [] kind = "fetchRosterWithFallback" ->
            {[html |-> [includes |-> {"<table", "Pos."}, length |-> 20000]],
             [html |-> [includes |-> {"<table", "Year", "id=homepage"}, length |-> 20000]],
             [html |-> [includes |-> {"<table", "Hometown"}, length |-> 800000]],
             [html |-> [includes |-> {"Position"}, length |-> 500]]}
      [] kind = "soccerRoute" ->
            {[players |-> 0, goalies |-> 0], [players |-> 0, goalies |-> 1],
             [players |-> 2, goalies |-> 0]}
      [] kind = "basketballRoute" -> {[players |-> 0], [players |-> 2]}
      [] kind = "baseballRoute" -> {[length |-> 0], [length |-> 100], [length |-> 101]}

FetchKinds ==
    {"fetchWithFallback", "fetchStatsWithFallback", "fetchRosterWithFallback",
     "soccerRoute", "basketballRoute", "baseballRoute"}

Answers(kind) == Failures \cup {Read(b) : b \in Bodies(kind)}

Pending == [status |-> "pending"]
Failure == [status |-> "failure"]
Returned(i) == [status |-> "returned", url |-> i]

-----------------------------------------------------------------------------
(* Specification of the fallback loops                                      *)

InitFetch ==
    /\ pc = "loop"
    /\ fetchKind \in FetchKinds
    /\ urls \in UNION {[1..n -> Answers(fetchKind)] : n \in 0..MaxUrls}
    /\ fetchIdx = 1
    /\ requests = <<>>
    /\ inFlight = {}
    /\ fetchResult = Pending
    /\ IdleExceptFetch

\* for (const url of urls) { ... await fetch(url)
IssueRequest ==
    /\ pc = "loop"
    /\ fetchIdx <= Len(urls)
    /\ requests' = Append(requests, fetchIdx)
    /\ inFlight' = inFlight \cup {fetchIdx}
    /\ pc' = "awaitFetch"
    /\ UNCHANGED <<fetchKind, urls, fetchIdx, fetchResult, exceptFetch>>

\* fetch rejects (catch, continue) or resolves; if (!response.ok) continue
FetchSettles ==
    /\ pc = "awaitFetch"
    /\ IF urls[fetchIdx].fetch = "ok"
       THEN /\ pc' = "awaitBody"
            /\ UNCHANGED <<fetchIdx, inFlight>>
       ELSE /\ pc' = "loop"
            /\ fetchIdx' = fetchIdx + 1
            /\ inFlight' = inFlight \ {fetchIdx}
    /\ UNCHANGED <<fetchKind, urls, requests, fetchResult, exceptFetch>>

\* the variant that goes on with the next candidate after a valid one
BodySettles_goesOn ==
    /\ pc = "awaitBody"
    /\ inFlight' = inFlight \ {fetchIdx}
    /\ IF urls[fetchIdx].read = "ok" /\ isValidBody(fetchKind, urls[fetchIdx].body)
       THEN fetchResult' = Returned(fetchIdx)
       ELSE fetchResult' = fetchResult
    /\ pc' = "loop"
    /\ fetchIdx' = fetchIdx + 1
    /\ UNCHANGED <<fetchKind, urls, requests, exceptFetch>>

\* the body is read (or reading throws: catch, continue) and checked;
\* a valid body is returned, an invalid one falls through to the next URL
BodySettles ==
    /\ pc = "awaitBody"
    /\ inFlight' = inFlight \ {fetchIdx}
    /\ IF urls[fetchIdx].read = "ok" /\ isValidBody(fetchKind, urls[fetchIdx].body)
       THEN /\ fetchResult' = Returned(fetchIdx)
            /\ pc' = "returned"
            /\ UNCHANGED fetchIdx
       ELSE /\ pc' = "loop"
            /\ fetchIdx' = fetchIdx + 1
            /\ UNCHANGED fetchResult
    /\ UNCHANGED <<fetchKind, urls, requests, exceptFetch>>

\* after the loop: return null / throw new Error('Could not parse ...')
ReturnFailure ==
    /\ pc = "loop"
    /\ fetchIdx > Len(urls)
    /\ fetchResult' = Failure
    /\ pc' = "returned"
    /\ UNCHANGED <<fetchKind, urls, fetchIdx, requests, inFlight, exceptFetch>>

NextFetch == IssueRequest \/ FetchSettles \/ BodySettles \/ ReturnFailure

SpecFetch == InitFetch /\ [][NextFetch]_vars

-----------------------------------------------------------------------------
(* C19: candidates are tried in order, one at a time, up to the first good  *)

\* candidate i responds successfully and passes the validity check
C19_Good(i) ==
    /\ urls[i].fetch = "ok"
    /\ urls[i].read = "ok"
    /\ isValidBody(fetchKind, urls[i].body)

\* C19: the requests issued are candidates 1, 2, ... in list order with at
\* most one outstanding; a returned candidate is the first good one and is
\* the last one requested; the failure result appears only when every
\* candidate has been requested and none was good.
C19_SequentialFallback ==
    /\ requests = [i \in 1..Len(requests) |-> i]
    /\ Len(requests) <= Len(urls)
    /\ Cardinality(inFlight) <= 1
    /\ \A i \in inFlight : i = Len(requests)
    /\ \A i \in 1..Len(requests) : i < Len(requests) => ~C19_Good(i)
    /\ fetchResult.status = "returned" =>
          /\ C19_Good(fetchResult.url)
          /\ Len(requests) = fetchResult.url
          /\ inFlight = {}
    /\ fetchResult.status = "failure" =>
          /\ Len(requests) = Len(urls)
          /\ \A i \in 1..Len(urls) : ~C19_Good(i)
          /\ inFlight = {}
    /\ pc = "returned" => fetchResult.status \in {"returned", "failure"}

\* the second of three candidates was returned after the first failed, and
\* the third was never requested
C19_Witness ==
    /\ pc = "returned"
    /\ Len(urls) = 3
    /\ fetchResult = Returned(2)
    /\ requests = <<1, 2>>
    /\ C19_Good(3)

-----------------------------------------------------------------------------
(* src/lib/parsers/wmt-api.ts: sortByJersey                                 *)

\* the longest player list
MaxApiPlayers == 3

\* !!name?.trim()
hasName(p) == trim(p.name) # <<>>

\* a.number === '00' ? -1 : parseInt(a.number) || 999
jerseyOrder(p) ==
    IF p.number = <<"0", "0">> THEN 0 - 1
    ELSE The({IF isNaN(n) \/ n = 0 THEN 999 ELSE n : n \in {parseInt(p.number)}})

\* the comparator handed to sort
compareByJersey(a, b) ==
    IF hasName(a) # hasName(b) THEN (IF hasName(a) THEN 0 - 1 ELSE 1)
    ELSE jerseyOrder(a) - jerseyOrder(b)

\* players.sort(compare): the sort is stable; rank[i] is the position entry i
\* is moved to
sortByJersey(players) ==
    The({Tuple([q \in 1..Len(players) |->
                  players[CHOOSE i \in 1..Len(players) : rank[i] = q]]) :
         rank \in {Tuple([i \in 1..Len(players) |->
                     Cardinality({j \in 1..Len(players) :
                                    \/ compareByJersey(players[j], players[i]) < 0
                                    \/ /\ compareByJersey(players[j], players[i]) = 0
                                       /\ j < i}) + 1])}})

\* jersey_no || '' and the name of an API entry
ApiNumbers == {<<>>, <<"0", "0">>, <<"0">>, <<"7">>}
ApiNames == {<<>>, <<" ">>, <<"A", "l">>}
ApiEntries == [number : ApiNumbers, name : ApiNames]

-----------------------------------------------------------------------------
(* Specification of the API adapter's ordering                              *)

InitApi ==
    /\ pc = "input"
    /\ apiPlayers \in UNION {[1..n -> ApiEntries] : n \in 0..MaxApiPlayers}
    /\ apiSorted = <<>>
    /\ IdleExceptApi

SortByJersey ==
    /\ pc = "input"
    /\ apiSorted' = sortByJersey(apiPlayers)
    /\ pc' = "done"
    /\ UNCHANGED <<apiPlayers, exceptApi>>

NextApi == SortByJersey

SpecApi == InitApi /\ [][NextApi]_vars

-----------------------------------------------------------------------------
(* C20: the adapter's output is ordered by jersey                           *)

C20_HasJersey(p) == p.number # <<>>

\* jersey "00" counts as below every number
C20_JerseyValue(p) == IF p.number = <<"0", "0">> THEN 0 - 1 ELSE parseInt(p.number)

\* C20: in the output of sortByJersey the named entries come before the
\* nameless ones and, among the named, every entry with a jersey comes
\* before every entry without one and jerseys ascend, "00" first.
C20_OrderedByJersey ==
    pc = "done" =>
        \A i, j \in 1..Len(apiSorted) :
            i < j =>
                LET a == apiSorted[i]
                    b == apiSorted[j]
                IN  /\ hasName(b) => hasName(a)
                    /\ (hasName(a) /\ hasName(b)) =>
                          /\ C20_HasJersey(b) => C20_HasJersey(a)
                          /\ (C20_HasJersey(a) /\ C20_HasJersey(b)) =>
                                C20_JerseyValue(a) <= C20_JerseyValue(b)

-----------------------------------------------------------------------------
(* src/lib/parsers/volleyball.ts: splitRH2B3BHR                             *)

\* the longest merged digit text
MaxMergedLen == 7

\* s.substring(a, b), and s.substring(a)
substring(s, a, b) == SubSeq(s, a + 1, IF b > Len(s) THEN Len(s) ELSE b)
substringFrom(s, a) == SubSeq(s, a + 1, Len(s))

\* Math.max(ab, 100)
maxABOf(n) == IF n > 100 THEN n ELSE 100
\* the variant that requires H < AB
maxHOf_exclusive(n) == IF n > 0 THEN n - 1 ELSE 50

\* ab > 0 ? ab : 50
maxHOf(n) == IF n > 0 THEN n ELSE 50

\* l[1] + ... + l[i]: the offset at which group i + 1 starts
RECURSIVE SumTo(_, _)
SumTo(l, i) == IF i = 0 THEN 0 ELSE SumTo(l, i - 1) + l[i]

\* the group lengths <<r_len, h_len, d2_len, d3_len, hr_len>> in the order
\* the five nested loops of the 6-value split visit them
lengths6 ==
    [k \in 1..32 |-> <<1 + ((k - 1) \div 16), 1 + (((k - 1) \div 8) % 2),
                       1 + (((k - 1) \div 4) % 2), 1 + (((k - 1) \div 2) % 2),
                       1 + ((k - 1) % 2)>>]

\* the group lengths <<r_len, h_len, d2_len, d3_len>> in the order the four
\* nested loops of the 5-value split visit them
lengths5 ==
    [k \in 1..16 |-> <<1 + ((k - 1) \div 8), 1 + (((k - 1) \div 4) % 2),
                       1 + (((k - 1) \div 2) % 2), 1 + ((k - 1) % 2)>>]

\* the numbers read with group lengths l (the last group takes the rest)
groupsOf(text, l) ==
    [i \in 1..(Len(l) + 1) |->
        parseInt(IF i <= Len(l)
                 THEN substring(text, SumTo(l, i - 1), SumTo(l, i))
                 ELSE substringFrom(text, SumTo(l, Len(l))))]

\* loop conditions and continue tests of the 6-value split for lengths l
accepted6(text, n, l) ==
    LET g == groupsOf(text, l)
        restLen == Len(text) - l[1] - l[2]
        xbLen == restLen - l[3] - l[4] - l[5]
    IN  /\ l[1] < Len(text) - 4
        /\ ~(g[1] > maxABOf(n))
        /\ l[1] + l[2] < Len(text) - 3
        /\ ~(g[2] > maxHOf(n))
        /\ l[3] < restLen - 2
        /\ ~(g[3] > g[2])
        /\ l[3] + l[4] < restLen - 1
        /\ ~(g[4] > g[2])
        /\ l[5] < restLen - l[3] - l[4]
        /\ ~(g[5] > g[2])
        /\ ~(g[3] + g[4] + g[5] > g[2])
        /\ ~(xbLen = 0 \/ xbLen > 2)
        /\ g[6] = g[3] + g[4] + g[5]

\* loop conditions and continue tests of the 5-value split for lengths l
accepted5(text, n, l) ==
    LET g == groupsOf(text, l)
        restLen == Len(text) - l[1] - l[2]
        hrLen == restLen - l[3] - l[4]
    IN  /\ l[1] < Len(text) - 3
        /\ ~(g[1] > maxABOf(n))
        /\ l[1] + l[2] < Len(text) - 2
        /\ ~(g[2] > maxHOf(n))
        /\ l[3] < restLen - 1
        /\ ~(g[3] > g[2])
        /\ l[3] + l[4] < restLen
        /\ ~(g[4] > g[2])
        /\ ~(hrLen = 0 \/ hrLen > 2)
        /\ ~(g[5] > g[2])
        /\ ~(g[3] + g[4] + g[5] > g[2])

\* results6 and results: the tuples pushed, in push order
results6Of(text, n) ==
    LET ok(l) == accepted6(text, n, l)
        ls == SelectSeq(lengths6, ok)
    IN  [i \in 1..Len(ls) |-> SubSeq(groupsOf(text, ls[i]), 1, 5)]

results5Of(text, n) ==
    LET ok(l) == accepted5(text, n, l)
        ls == SelectSeq(lengths5, ok)
    IN  [i \in 1..Len(ls) |-> groupsOf(text, ls[i])]

\* results.sort((a, b) => b[1] - a[1])[0]: the sort is stable, so this is the
\* first pushed tuple among those with the largest H
pickResult(results) ==
    results[CHOOSE i \in 1..Len(results) :
               /\ \A j \in 1..Len(results) : results[j][2] <= results[i][2]
               /\ \A j \in 1..(i - 1) : results[j][2] < results[i][2]]

\* the variant that tries the 5-value split before the 6-value split
splitRH2B3BHR_fiveFirst(text, n) ==
    IF Len(text) < 5 THEN <<>>
    ELSE The({IF Len(r5) > 0 THEN pickResult(r5)
              ELSE The({IF Len(r6) > 0 THEN pickResult(r6) ELSE <<>> :
                        r6 \in {IF Len(text) >= 6 THEN results6Of(text, n) ELSE <<>>}}) :
              r5 \in {results5Of(text, n)}})

splitRH2B3BHR(text, n) ==
    IF Len(text) < 4 THEN <<>>
    ELSE The({IF Len(r6) > 0 THEN pickResult(r6)
              ELSE IF Len(text) < 5 THEN <<>>
              ELSE The({IF Len(r5) = 0 THEN <<>> ELSE pickResult(r5) :
                        r5 \in {results5Of(text, n)}}) :
              r6 \in {IF Len(text) >= 6 THEN results6Of(text, n) ELSE <<>>}})

\* the digits and at-bats the merged texts are drawn from
SplitDigits == {"0", "1", "2"}
SplitAtBats == {0, 1, 2, 10, 21}

-----------------------------------------------------------------------------
(* Specification of the digit splitter                                      *)

InitSplit ==
    /\ pc = "input"
    /\ merged \in StringsUpTo(SplitDigits, MaxMergedLen)
    /\ ab \in SplitAtBats
    /\ splitResult = <<>>
    /\ IdleExceptSplit

Split ==
    /\ pc = "input"
    /\ splitResult' = splitRH2B3BHR(merged, ab)
    /\ pc' = "done"
    /\ UNCHANGED <<merged, ab, exceptSplit>>

NextSplit == Split

SpecSplit == InitSplit /\ [][NextSplit]_vars

-----------------------------------------------------------------------------
(* C21, C22: what the digit splitter returns                                *)

\* the ways of cutting a text of length n into k groups of one or two digits
C21_Cuts(n, k) == {l \in [1..k -> 1..2] : SumTo(l, k) = n}

\* the text of group i of cut l
C21_Group(text, l, i) == SubSeq(text, SumTo(l, i - 1) + 1, SumTo(l, i))

C21_Values(text, l) == [i \in 1..Len(l) |-> DecValue(C21_Group(text, l, i))]

\* every group is a number written without a leading zero
C21_Canonical(text, l) ==
    \A i \in 1..Len(l) : l[i] = 2 => C21_Group(text, l, i)[1] # "0"

\* H <= AB, 2B <= H, 3B <= H, HR <= H and 2B + 3B + HR <= H
C21_Constraints(v, n) ==
    /\ v[2] <= n
    /\ v[3] <= v[2] /\ v[4] <= v[2] /\ v[5] <= v[2]
    /\ v[3] + v[4] + v[5] <= v[2]

\* the quintuples whose concatenation is the merged text
C21_Quintuples ==
    {C21_Values(merged, l) : l \in {c \in C21_Cuts(Len(merged), 5) :
                                       /\ C21_Canonical(merged, c)
                                       /\ C21_Constraints(C21_Values(merged, c), ab)}}

\* C21 as stated: whenever the merged text is the concatenation of values
\* R, H, 2B, 3B, HR of one or two digits satisfying the constraints, the
\* splitter returns exactly those values.
C21_RoundTripAsStated ==
    pc = "done" => \A q \in C21_Quintuples : splitResult = q

\* C21 amended: the round trip holds when all five values are single digits.
C21_RoundTripSingleDigits ==
    (pc = "done" /\ Len(merged) = 5) =>
        \A q \in C21_Quintuples : splitResult = q

\* five single digits have been split back into themselves
C21_Witness ==
    /\ pc = "done"
    /\ merged = <<"1", "2", "1", "0", "1">>
    /\ ab = 2
    /\ splitResult = <<1, 2, 1, 0, 1>>

-----------------------------------------------------------------------------
(* C22: the tuple returned is a valid partition, 6 groups first, largest H  *)

\* the at-bats bound on H
C22_HBound == IF ab > 0 THEN ab ELSE 50

\* the tuples of the valid partitions of the merged text into k groups
C22_Valid(k) ==
    {SubSeq(v, 1, 5) :
        v \in {w \in {C21_Values(merged, l) : l \in C21_Cuts(Len(merged), k)} :
                 /\ w[2] <= C22_HBound
                 /\ w[3] <= w[2] /\ w[4] <= w[2] /\ w[5] <= w[2]
                 /\ w[3] + w[4] + w[5] <= w[2]
                 /\ k = 6 => w[6] = w[3] + w[4] + w[5]}}

C22_LargestH(t, S) == t \in S /\ \A u \in S : u[2] <= t[2]

\* C22: the splitter returns a tuple with the largest H among the valid
\* 6-group partitions if there is one, otherwise among the valid 5-group
\* partitions, and null when no partition is valid.
C22_ValidPartitionOrNull ==
    pc = "done" =>
        LET v6 == C22_Valid(6)
            v5 == C22_Valid(5)
        IN  IF v6 # {} THEN C22_LargestH(splitResult, v6)
            ELSE IF v5 # {} THEN C22_LargestH(splitResult, v5)
            ELSE splitResult = <<>>

\* a text with a valid 6-group and a valid 5-group reading has been split
C22_Witness ==
    /\ pc = "done"
    /\ merged = <<"1", "2", "1", "0", "1", "2">>
    /\ ab = 21
    /\ <<1, 21, 0, 1, 2>> \in C22_Valid(5)
    /\ splitResult = <<1, 2, 1, 0, 1>>

-----------------------------------------------------------------------------
(* src/unnamed/part_014: saved schools (src/lib/storage/schools)            *)

\* the number of times the clock is read
MaxClock == 3

\* \w, \s
isWordChar(c) == c \in UpperSet \cup LowerSet \cup DigitSet \cup {"_"}

RECURSIVE removeSpecial(_)
\* .replace(/[^\w\s-]/g, '')
removeSpecial(s) ==
    IF s = <<>> THEN <<>>
    ELSE IF isWordChar(Head(s)) \/ IsSpace(Head(s)) \/ Head(s) = "-"
         THEN <<Head(s)>> \o removeSpecial(Tail(s))
         ELSE removeSpecial(Tail(s))

RECURSIVE collapseRuns(_, _, _)
\* .replace(/\s+/g, '-') with isRun = IsSpace, .replace(/-+/g, '-') with the dash
collapseRuns(s, space, inRun) ==
    IF s = <<>> THEN <<>>
    ELSE IF (space /\ IsSpace(Head(s))) \/ (~space /\ Head(s) = "-")
         THEN (IF inRun THEN <<>> ELSE <<"-">>) \o collapseRuns(Tail(s), space, TRUE)
         ELSE <<Head(s)>> \o collapseRuns(Tail(s), space, FALSE)

lowerCase(s) == [i \in 1..Len(s) |-> toLowerCase(s[i])]

\* slugify(name)
slugify(name) ==
    collapseRuns(collapseRuns(removeSpecial(trim(lowerCase(name))), TRUE, FALSE),
                 FALSE, FALSE)

\* schools.findIndex(s => s.id === id && s.sport === sport), 0 when none
findIndex(schools, id, sp) ==
    IF \E i \in 1..Len(schools) : schools[i].id = id /\ schools[i].sport = sp
    THEN CHOOSE i \in 1..Len(schools) :
            /\ schools[i].id = id /\ schools[i].sport = sp
            /\ \A j \in 1..(i - 1) : ~(schools[j].id = id /\ schools[j].sport = sp)
    ELSE 0

\* {...school, id, savedAt: Date.now()}
savedSchoolOf(school, t) ==
    [id |-> slugify(school.name), name |-> school.name, sport |-> school.sport,
     rosterUrl |-> school.rosterUrl, statsUrl |-> school.statsUrl,
     platform |-> school.platform, savedAt |-> t]

\* the variant that always adds a new entry
saveSchool_push(schools, school, t) == Append(schools, savedSchoolOf(school, t))

\* saveSchool: the list written back to storage
saveSchool(schools, school, t) ==
    The({IF existingIndex > 0
         THEN [schools EXCEPT ![existingIndex] = savedSchoolOf(school, t)]
         ELSE Append(schools, savedSchoolOf(school, t)) :
         existingIndex \in {findIndex(schools, slugify(school.name), school.sport)}})

\* schools.filter(s => !(s.id === id && s.sport === sport))
deleteFilter(schools, id, sp) ==
    LET keep(s) == ~(s.id = id /\ s.sport = sp)
    IN  SelectSeq(schools, keep)

\* getSavedSchool(id, sport), Undefined for null
getSavedSchool(schools, id, sp) ==
    The({IF i = 0 THEN Undefined ELSE schools[i] : i \in {findIndex(schools, id, sp)}})

\* the sports, school names and URLs of the forms
Sports == {"baseball", "football"}
SchoolNames == {<<"G">>, <<"g">>, <<"g", "!">>, <<" ", "g">>, <<"g", " ", "g">>, <<"g", "-", "-", "g">>}
SchoolInputs ==
    [name : SchoolNames, sport : Sports, rosterUrl : {"r"}, statsUrl : {"s"},
     platform : {"sidearm"}]

-----------------------------------------------------------------------------
(* Specification of the saved-schools storage                               *)

InitSchools ==
    /\ pc = "storage"
    /\ savedSchools = <<>>
    /\ now = 0
    /\ lastCall = [op |-> "none"]
    /\ IdleExceptSchools

\* saveSchool(school)
SaveSchool ==
    /\ pc = "storage"
    /\ now < MaxClock
    /\ \E school \in SchoolInputs :
          /\ savedSchools' = saveSchool(savedSchools, school, now + 1)
          /\ lastCall' = [op |-> "saveSchool", id |-> slugify(school.name),
                          sport |-> school.sport, before |-> savedSchools,
                          returned |-> savedSchoolOf(school, now + 1)]
    /\ now' = now + 1
    /\ UNCHANGED <<pc, exceptSchools>>

\* deleteSchool(id, sport)
DeleteSchool ==
    /\ pc = "storage"
    /\ \E id \in {slugify(n) : n \in SchoolNames}, sp \in Sports :
          \E filtered \in {deleteFilter(savedSchools, id, sp)} :
             /\ savedSchools' = IF Len(filtered) = Len(savedSchools)
                                THEN savedSchools ELSE filtered
             /\ lastCall' = [op |-> "deleteSchool", id |-> id, sport |-> sp,
                             before |-> savedSchools,
                             returned |-> Len(filtered) # Len(savedSchools)]
    /\ UNCHANGED <<pc, now, exceptSchools>>

NextSchools == SaveSchool \/ DeleteSchool

SpecSchools == InitSchools /\ [][NextSchools]_vars

-----------------------------------------------------------------------------
(* C28: at most one saved entry per (id, sport)                             *)

C28_Is(s, id, sp) == s.id = id /\ s.sport = sp

C28_Matching(list, id, sp) == {i \in 1..Len(list) : C28_Is(list[i], id, sp)}

-----------------------------------------------------------------------------
(* src/unnamed/part_003: the page (Home) and its Get Stats run              *)

\* the number of Get Stats runs
MaxRuns == 2

\* SCHOOLS: the configured school ids and their sports
ConfiguredSchools == {[id |-> <<"g">>, sports |-> {"baseball"}]}

\* getSchoolById(id), Undefined when there is none
getSchoolById(id) ==
    IF \E s \in ConfiguredSchools : s.id = id
    THEN CHOOSE s \in ConfiguredSchools : s.id = id
    ELSE Undefined

\* what the forms offer
PageSchoolIds == {<<>>, <<"g">>}
PageNames == {<<>>, <<" ">>, <<"G">>}

\* the answers of /api/roster: the request fails, {success: false}, or
\* {success: true, data} with so many players
RosterAnswers ==
    {[fetch |-> "throws"], [fetch |-> "ok", success |-> FALSE, players |-> 0],
     [fetch |-> "ok", success |-> TRUE, players |-> 0],
     [fetch |-> "ok", success |-> TRUE, players |-> 2]}

\* the answers of /api/pdf: the request fails, or {success, data?, error?}
StatsAnswers ==
    {[fetch |-> "throws"]} \cup
    [fetch : {"ok"}, success : BOOLEAN, data : BOOLEAN, error : BOOLEAN]

Idle == [pc |-> "idle"]

\* roster data and stats data fetched for sport sp
rosterOf(sp, n) == [i \in 1..n |-> sp]
statsOf(sp) == <<sp>>

\* canFetch = useCustomUrls ? customRosterUrl && customStatsUrl : selectedSchool
canFetch == IF useCustomUrls THEN customUrls ELSE selectedSchool # <<>>

\* the variant that saves as soon as the roster has loaded
shouldSave_rosterOnly(rosterLen, statsLoaded, custom, name) ==
    rosterLen > 0 /\ custom /\ trim(name) # <<>>

\* roster.length > 0 && statsLoaded && useCustomUrls && customSchoolName.trim()
shouldSave(rosterLen, statsLoaded, custom, name) ==
    rosterLen > 0 /\ statsLoaded /\ custom /\ trim(name) # <<>>

\* catch (err) { setError; setRosterData([]); setStatsData(null) } finally
\* { setIsLoading(false) }
RunFails ==
    /\ error' = TRUE
    /\ rosterData' = <<>>
    /\ statsData' = <<>>
    /\ isLoading' = FALSE
    /\ run' = Idle

InitPage ==
    /\ pc = "page"
    /\ selectedSport = "baseball"
    /\ selectedSchool = <<>>
    /\ useCustomUrls = FALSE
    /\ customSchoolName = <<>>
    /\ customUrls = FALSE
    /\ isLoading = FALSE
    /\ error = FALSE
    /\ rosterData = <<>>
    /\ statsData = <<>>
    /\ run = Idle
    /\ lastRun = [runs |-> 0, finished |-> FALSE]
    /\ savedSchools = <<>>
    /\ now = 0
    /\ lastCall = [op |-> "none"]
    /\ IdleExceptPageAndSchools

\* SportSelector onChange, and the effect on selectedSport
SetSelectedSport ==
    /\ \E sp \in Sports :
          /\ sp # selectedSport
          /\ selectedSport' = sp
    /\ rosterData' = <<>>
    /\ statsData' = <<>>
    /\ error' = FALSE
    /\ selectedSchool' = <<>>
    /\ customSchoolName' = <<>>
    /\ customUrls' = FALSE
    /\ UNCHANGED <<pc, useCustomUrls, isLoading, run, lastRun, schoolsVars,
                   exceptPageAndSchools>>

\* SchoolCombobox onValueChange
SetSelectedSchool ==
    /\ \E id \in PageSchoolIds : id # selectedSchool /\ selectedSchool' = id
    /\ UNCHANGED <<pc, selectedSport, useCustomUrls, customSchoolName, customUrls,
                   isLoading, error, rosterData, statsData, run, lastRun,
                   schoolsVars, exceptPageAndSchools>>

\* the Custom URLs switch
SetUseCustomUrls ==
    /\ useCustomUrls' = ~useCustomUrls
    /\ UNCHANGED <<pc, selectedSport, selectedSchool, customSchoolName, customUrls,
                   isLoading, error, rosterData, statsData, run, lastRun,
                   schoolsVars, exceptPageAndSchools>>

\* CustomUrlForm: the name and the two URLs
SetCustomForm ==
    /\ \E name \in PageNames, filled \in BOOLEAN :
          /\ <<name, filled>> # <<customSchoolName, customUrls>>
          /\ customSchoolName' = name
          /\ customUrls' = filled
    /\ UNCHANGED <<pc, selectedSport, selectedSchool, useCustomUrls,
                   isLoading, error, rosterData, statsData, run, lastRun,
                   schoolsVars, exceptPageAndSchools>>

\* handleGetStats up to the roster request
ClickGetStats ==
    /\ canFetch
    /\ ~isLoading
    /\ lastRun.runs < MaxRuns
    /\ IF /\ ~useCustomUrls
          /\ getSavedSchool(savedSchools, selectedSchool, selectedSport) = Undefined
          /\ \/ getSchoolById(selectedSchool) = Undefined
             \/ selectedSport \notin getSchoolById(selectedSchool).sports
       THEN /\ RunFails
            /\ lastRun' = [runs |-> lastRun.runs + 1, finished |-> TRUE,
                           rosterLoaded |-> 0, statsLoaded |-> FALSE, wrote |-> FALSE]
       ELSE /\ isLoading' = TRUE
            /\ error' = FALSE
            /\ run' = [pc |-> "awaitRoster", sport |-> selectedSport,
                       useCustomUrls |-> useCustomUrls,
                       customSchoolName |-> customSchoolName, roster |-> 0]
            /\ lastRun' = [runs |-> lastRun.runs + 1, finished |-> FALSE]
            /\ UNCHANGED <<rosterData, statsData>>
    /\ UNCHANGED <<pc, selectedSport, selectedSchool, useCustomUrls, customSchoolName,
                   customUrls, schoolsVars, exceptPageAndSchools>>

\* the roster request settles; on success the stats request is sent
RosterSettles ==
    /\ run.pc = "awaitRoster"
    /\ \E answer \in RosterAnswers :
          IF answer.fetch = "throws" \/ ~answer.success
          THEN /\ RunFails
               /\ lastRun' = [runs |-> lastRun.runs, finished |-> TRUE,
                              rosterLoaded |-> 0, statsLoaded |-> FALSE, wrote |-> FALSE]
          ELSE /\ rosterData' = rosterOf(run.sport, answer.players)
               /\ run' = [run EXCEPT !.pc = "awaitStats", !.roster = answer.players]
               /\ UNCHANGED <<error, statsData, isLoading, lastRun>>
    /\ UNCHANGED <<pc, selectedSport, selectedSchool, useCustomUrls, customSchoolName,
                   customUrls, schoolsVars, exceptPageAndSchools>>

\* the stats request settles and the run ends
StatsSettles ==
    /\ run.pc = "awaitStats"
    /\ \E answer \in StatsAnswers :
          IF answer.fetch = "throws"
          THEN /\ RunFails
               /\ lastRun' = [runs |-> lastRun.runs, finished |-> TRUE,
                              rosterLoaded |-> run.roster, statsLoaded |-> FALSE,
                              wrote |-> FALSE]
               /\ UNCHANGED schoolsVars
          ELSE /\ statsData' = IF answer.data THEN statsOf(run.sport) ELSE statsData
               /\ error' = IF \/ run.roster > 0 /\ ~answer.data /\ ~answer.error
                              \/ run.roster = 0 /\ ~answer.data
                           THEN TRUE ELSE error
               /\ IF shouldSave(run.roster, answer.data, run.useCustomUrls,
                                run.customSchoolName)
                  THEN \E school \in {[name |-> trim(run.customSchoolName),
                                       sport |-> run.sport, rosterUrl |-> "r",
                                       statsUrl |-> "s", platform |-> "sidearm"]} :
                          /\ savedSchools' = saveSchool(savedSchools, school, now + 1)
                          /\ now' = now + 1
                          /\ lastCall' = [op |-> "saveSchool", id |-> slugify(school.name),
                                          sport |-> school.sport, before |-> savedSchools,
                                          returned |-> savedSchoolOf(school, now + 1)]
                  ELSE UNCHANGED schoolsVars
               /\ isLoading' = FALSE
               /\ run' = Idle
               /\ lastRun' = [runs |-> lastRun.runs, finished |-> TRUE,
                              rosterLoaded |-> run.roster, statsLoaded |-> answer.data,
                              wrote |-> savedSchools' # savedSchools]
               /\ UNCHANGED rosterData
    /\ UNCHANGED <<pc, selectedSport, selectedSchool, useCustomUrls, customSchoolName,
                   customUrls, exceptPageAndSchools>>

NextPage ==
    \/ SetSelectedSport
    \/ SetSelectedSchool
    \/ SetUseCustomUrls
    \/ SetCustomForm
    \/ ClickGetStats
    \/ RosterSettles
    \/ StatsSettles

SpecPage == InitPage /\ [][NextPage]_vars

-----------------------------------------------------------------------------
(* C23: a school is saved only by a run that loaded roster and stats        *)

\* C23: a finished run has written the saved schools only if its roster had
\* at least one player and its stats request returned data.
C23_SavedOnlyWhenBothLoaded ==
    (lastRun.finished /\ lastRun.wrote) =>
        lastRun.rosterLoaded > 0 /\ lastRun.statsLoaded

\* a run with a roster and stats has saved the custom school
C23_Witness ==
    /\ lastRun.finished
    /\ lastRun.wrote
    /\ Len(savedSchools) = 1
    /\ savedSchools[1].id = <<"g">>

-----------------------------------------------------------------------------
(* C30: the data shown belongs to the selected sport                        *)

\* C30: the roster and stats shown were fetched for the selected sport, under
\* every interleaving of sport changes and request completions.
C30_DataOfSelectedSport ==
    /\ \A i \in 1..Len(rosterData) : rosterData[i] = selectedSport
    /\ \A i \in 1..Len(statsData) : statsData[i] = selectedSport

\* ---------------------------------------------------------------------------
\* FootballParser.parse (src/lib/parsers/football.ts): the section state
\* machine over the lines of the extracted text and the players map.
\*
\* A line is [data, embedded]: data is what the line holds from its start (a
\* section header, a Total/Opponents/Team row, column-header residue, a stat
\* row, or nothing) and embedded is the section header found after that text
\* ("none" when there is none).  A stat row is [jersey, name, layout, cols,
\* value]: layout is the pattern of its columns, cols the number of
\* whitespace-separated columns after the name, value the number recorded.
\* The lines of the text are read one at a time, so the text is revealed line
\* by line; lineNo counts the lines read.
\* ---------------------------------------------------------------------------
MaxLines == 5

\* const sectionHeaders = [...]
sectionHeaders ==
    <<"# Rushing", "# Passing", "# Receiving", "# Punt Returns",
      "# Kick Returns", "# Interceptions", "# Scoring", "# Field Goals",
      "# Punting", "# Defensive Leaders", "# Total Offense", "# All Purpose">>

\* The chain of "if (trimmed.startsWith(...)) { currentSection = ...; continue; }":
\* the section a line that starts with this text switches to, "null" when no
\* test of the chain matches.
sectionAtStart(text) ==
    CASE text \in {"# Rushing", "Rushing"} -> "Rushing"
      [] text \in {"# Passing", "Passing"} -> "Passing"
      [] text \in {"# Receiving", "Receiving"} -> "Receiving"
      [] text = "# Punt Returns" -> "PuntReturns"
      [] text = "# Kick Returns" -> "KickReturns"
      [] text = "# Interceptions" -> "Interceptions"
      [] text = "# Scoring" -> "Scoring"
      [] text = "# Field Goals" -> "FieldGoals"
      [] text = "# Punting" -> "Punting"
      [] text \in {"# Defensive Leaders", "Tackles Sacks Pass Defense"} -> "Defense"
      [] OTHER -> "null"

\* if (embeddedSection) { if (embeddedSection.includes('Rushing')) ... }: the
\* section after a line whose data was processed and that has this header
\* embedded; cur when no branch matches.
embeddedSwitch(header, cur) ==
    CASE header = "# Rushing" -> "Rushing"
      [] header = "# Passing" -> "Passing"
      [] header = "# Receiving" -> "Receiving"
      [] header = "# Punt Returns" -> "PuntReturns"
      [] header = "# Kick Returns" -> "KickReturns"
      [] header = "# Interceptions" -> "Interceptions"
      [] header = "# Scoring" -> "Scoring"
      [] header = "# Field Goals" -> "FieldGoals"
      [] header = "# Punting" -> "Punting"
      [] header = "# Defensive Leaders" -> "Defense"
      [] OTHER -> cur

\* The regular expression and the parts.length test of each section's rule,
\* on the column pattern of a row.
acceptsRow(section, statRow) ==
    CASE section = "Rushing" -> statRow.layout = "rushing"
      [] section = "Passing" -> statRow.layout = "passing" /\ statRow.cols >= 8
      [] section = "Receiving" -> statRow.layout = "receiving"
      [] section = "Defense" -> statRow.layout # "fieldgoals" /\ statRow.cols >= 13
      [] section = "Punting" -> statRow.layout # "fieldgoals" /\ statRow.cols >= 9
      [] section = "FieldGoals" -> statRow.layout = "fieldgoals" /\ statRow.cols >= 5
      [] section = "Scoring" -> statRow.cols >= 9
      [] section \in {"PuntReturns", "KickReturns"} -> statRow.cols >= 5
      [] OTHER -> FALSE

\* const key = `${jersey}-${name}`
playerKey_jerseyOnly(jerseyNo, fullName) == jerseyNo

playerKey(jerseyNo, fullName) == jerseyNo \o <<"-">> \o fullName

hasPlayer(ps, key) == \E i \in 1..Len(ps) : ps[i].key = key

\* getOrCreatePlayer: players.set(key, { jersey, name }) when the key is new;
\* the record returned is the one under the key.
getOrCreatePlayer(ps, jerseyNo, fullName) ==
    IF hasPlayer(ps, playerKey(jerseyNo, fullName)) THEN ps
    ELSE Append(ps, [key |-> playerKey(jerseyNo, fullName),
                     jersey |-> jerseyNo, name |-> fullName,
                     rushing |-> Undefined, passing |-> Undefined,
                     receiving |-> Undefined, defense |-> Undefined,
                     punting |-> Undefined, kicking |-> Undefined,
                     returns |-> Undefined])

\* if (!p.kicking) p.kicking = { fgm: 0, ..., pts: 0 }
kickingOf(p) == IF p.kicking = Undefined THEN [fgm |-> 0, pts |-> 0] ELSE p.kicking

\* if (!p.returns) p.returns = { krNo: 0, ..., prNo: 0, ... }
returnsOf(p) == IF p.returns = Undefined THEN [krNo |-> 0, prNo |-> 0] ELSE p.returns

\* The assignment each section's rule makes to the player record.
recordStats(p, section, v) ==
    CASE section = "Rushing" -> [p EXCEPT !.rushing = [att |-> v]]
      [] section = "Passing" -> [p EXCEPT !.passing = [att |-> v]]
      [] section = "Receiving" -> [p EXCEPT !.receiving = [no |-> v]]
      [] section = "Defense" -> [p EXCEPT !.defense = [tot |-> v]]
      [] section = "Punting" -> [p EXCEPT !.punting = [no |-> v]]
      [] section = "FieldGoals" -> [p EXCEPT !.kicking = [kickingOf(p) EXCEPT !.fgm = v]]
      [] section = "Scoring" -> [p EXCEPT !.kicking = [kickingOf(p) EXCEPT !.pts = v]]
      [] section = "PuntReturns" -> [p EXCEPT !.returns = [returnsOf(p) EXCEPT !.prNo = v]]
      [] section = "KickReturns" -> [p EXCEPT !.returns = [returnsOf(p) EXCEPT !.krNo = v]]
      [] OTHER -> p

\* The body of one section's rule for an accepted row: getOrCreatePlayer, then
\* the assignment to the record it returns.
parseRow(ps, section, statRow) ==
    LET created == getOrCreatePlayer(ps, statRow.jersey, statRow.name)
        key == playerKey(statRow.jersey, statRow.name)
    IN  [i \in 1..Len(created) |->
            IF created[i].key = key
            THEN recordStats(created[i], section, statRow.value) ELSE created[i]]

\* The field of the player record a section's rule writes.
fieldOf(section) ==
    CASE section = "Rushing" -> "rushing"
      [] section = "Passing" -> "passing"
      [] section = "Receiving" -> "receiving"
      [] section = "Defense" -> "defense"
      [] section = "Punting" -> "punting"
      [] section = "FieldGoals" -> "fgm"
      [] section = "Scoring" -> "pts"
      [] section = "PuntReturns" -> "prNo"
      [] section = "KickReturns" -> "krNo"
      [] OTHER -> "none"

\* ---- the lines explored ----
FootballJersey == <<"7">>
FootballNames == {<<"A">>, <<"B">>}
RowOf(fullName, layout, cols, v) ==
    [kind |-> "row", jersey |-> FootballJersey, name |-> fullName,
     layout |-> layout, cols |-> cols, value |-> v]
FootballRows ==
    {RowOf(<<"A">>, "rushing", 9, 1), RowOf(<<"A">>, "plain", 5, 2),
     RowOf(<<"A">>, "fieldgoals", 11, 3), RowOf(<<"A">>, "plain", 13, 4),
     RowOf(<<"B">>, "rushing", 9, 5), RowOf(<<"B">>, "plain", 13, 6)}
StartHeaders ==
    {"# Rushing", "# Kick Returns", "# Scoring", "# Field Goals",
     "# Total Offense"}
EmbeddedHeaders == {"none", "# Kick Returns", "# Scoring", "# Total Offense"}
FootballLines ==
    {[data |-> [kind |-> "blank"], embedded |-> "none"]}
    \cup {[data |-> [kind |-> "header", header |-> h], embedded |-> "none"] :
            h \in StartHeaders}
    \cup {[data |-> d, embedded |-> e] :
            d \in FootballRows \cup {[kind |-> "summary"], [kind |-> "residue"]},
            e \in EmbeddedHeaders}

InitFootball ==
    /\ pc = "football"
    /\ IdleExceptFootball
    /\ lineNo = 0
    /\ currentSection = "null"
    /\ playerMap = <<>>
    /\ lastLine = [seen |-> FALSE]
    /\ lastHeader = "null"
    /\ accepted = {}

\* One iteration of "for (const line of lines)".
ProcessLine ==
    /\ pc = "football"
    /\ lineNo < MaxLines
    /\ \E line \in FootballLines :
         LET d == line.data
             start == IF d.kind = "header" THEN sectionAtStart(d.header) ELSE "null"
             continues == \/ d.kind = "blank"
                          \/ start # "null"
                          \/ d.kind \in {"summary", "residue"}
             takes == ~continues /\ d.kind = "row" /\ acceptsRow(currentSection, d)
             after == IF start # "null" THEN start
                      ELSE IF continues \/ line.embedded = "none" THEN currentSection
                      ELSE embeddedSwitch(line.embedded, currentSection)
         IN  /\ lineNo' = lineNo + 1
             /\ currentSection' = after
             /\ playerMap' = IF takes THEN parseRow(playerMap, currentSection, d)
                             ELSE playerMap
             /\ lastLine' = [seen |-> TRUE, line |-> line,
                             before |-> currentSection,
                             heading |-> lastHeader,
                             read |-> IF continues THEN "none" ELSE currentSection,
                             took |-> takes,
                             after |-> after]
             /\ lastHeader' = IF line.embedded # "none" THEN line.embedded
                              ELSE IF d.kind = "header" THEN d.header
                              ELSE lastHeader
             /\ accepted' =
                  IF takes
                  THEN {a \in accepted :
                            ~(/\ a.jersey = d.jersey /\ a.name = d.name
                              /\ a.field = fieldOf(currentSection))}
                       \cup {[jersey |-> d.jersey, name |-> d.name,
                              field |-> fieldOf(currentSection),
                              value |-> d.value]}
                  ELSE accepted
    /\ UNCHANGED <<pc, exceptFootball>>

NextFootball == ProcessLine

SpecFootball == InitFootball /\ [][NextFootball]_vars

\* ---- C24 ----
\* The section each header of the parser's header list names ("null" before
\* any header).
C24_SectionOf(header) ==
    CASE header \in {"# Rushing", "Rushing"} -> "Rushing"
      [] header \in {"# Passing", "Passing"} -> "Passing"
      [] header \in {"# Receiving", "Receiving"} -> "Receiving"
      [] header = "# Punt Returns" -> "PuntReturns"
      [] header = "# Kick Returns" -> "KickReturns"
      [] header = "# Interceptions" -> "Interceptions"
      [] header = "# Scoring" -> "Scoring"
      [] header = "# Field Goals" -> "FieldGoals"
      [] header = "# Punting" -> "Punting"
      [] header = "# Defensive Leaders" -> "Defense"
      [] header = "# Total Offense" -> "TotalOffense"
      [] header = "# All Purpose" -> "AllPurpose"
      [] OTHER -> "null"

C24_HeaderLine ==
    /\ lastLine.seen
    /\ lastLine.line.data.kind = "header"

C24_RowLine ==
    /\ lastLine.seen
    /\ lastLine.line.data.kind = "row"

\* C24: a line that begins with a section header of the parser's header list
\* leaves currentSection at that header's section, and a stat row is read only
\* under the rules of the section whose header most recently preceded it.
C24_RowsReadUnderLatestHeader ==
    /\ C24_HeaderLine =>
         lastLine.after = C24_SectionOf(lastLine.line.data.header)
    /\ C24_RowLine => lastLine.read = C24_SectionOf(lastLine.heading)

\* ---- C25 ----
C25_EmbeddedLine ==
    /\ lastLine.seen
    /\ lastLine.line.embedded # "none"

\* C25: on a line with a section header after other text, the text before the
\* header is processed under the section that was current before the line, and
\* after the line the current section is the embedded header's section.
C25_EmbeddedHeaderSwitches ==
    C25_EmbeddedLine =>
        /\ lastLine.read \in {"none", lastLine.before}
        /\ lastLine.after = C24_SectionOf(lastLine.line.embedded)
        /\ currentSection = C24_SectionOf(lastLine.line.embedded)

\* ---- C26 ----
C26_Pairs == {<<a.jersey, a.name>> : a \in accepted}

C26_Records(jerseyNo, fullName) ==
    {i \in 1..Len(playerMap) :
        playerMap[i].jersey = jerseyNo /\ playerMap[i].name = fullName}

\* The record p holds value v in the field a section's rule writes.
C26_Holds(p, field, v) ==
    CASE field = "rushing" -> p.rushing # Undefined /\ p.rushing.att = v
      [] field = "passing" -> p.passing # Undefined /\ p.passing.att = v
      [] field = "receiving" -> p.receiving # Undefined /\ p.receiving.no = v
      [] field = "defense" -> p.defense # Undefined /\ p.defense.tot = v
      [] field = "punting" -> p.punting # Undefined /\ p.punting.no = v
      [] field = "fgm" -> p.kicking # Undefined /\ p.kicking.fgm = v
      [] field = "pts" -> p.kicking # Undefined /\ p.kicking.pts = v
      [] field = "prNo" -> p.returns # Undefined /\ p.returns.prNo = v
      [] field = "krNo" -> p.returns # Undefined /\ p.returns.krNo = v
      [] OTHER -> FALSE

\* C26: the players map holds exactly one record for each (jersey, name) pair
\* that had an accepted stat line and none for any other pair; the record of a
\* pair holds the latest stats of every section that accepted a line of the
\* pair, so no section's stats are erased by another section's line or by a
\* line of an athlete with the same jersey and another name.
C26_UpsertByJerseyAndName ==
    /\ \A i \in 1..Len(playerMap) :
          <<playerMap[i].jersey, playerMap[i].name>> \in C26_Pairs
    /\ \A pair \in C26_Pairs : Cardinality(C26_Records(pair[1], pair[2])) = 1
    /\ \A a \in accepted : \A i \in C26_Records(a.jersey, a.name) :
          C26_Holds(playerMap[i], a.field, a.value)

\* One athlete has field-goal and scoring stats, taken in two sections, in one
\* record, and an athlete with the same jersey and another name has a record
\* too.
C26_Witness ==
    /\ Len(playerMap) = 2
    /\ playerMap[1].jersey = playerMap[2].jersey
    /\ playerMap[1].name # playerMap[2].name
    /\ \E i \in 1..2 :
          /\ playerMap[i].kicking # Undefined
          /\ playerMap[i].kicking.fgm # 0
          /\ playerMap[i].kicking.pts # 0
    /\ \E a \in accepted : a.field = "fgm"
    /\ \E a \in accepted : a.field = "pts"

\* ---------------------------------------------------------------------------
\* parsePdfStats (src/unnamed/part_011): the batting and pitching modes over
\* the trimmed, non-empty lines of the text.
\*
\* A line is [first, has, more, battingOk, pitchingOk]: first is the text the
\* line starts with, has the sentinel or column-header text it contains
\* ("none" when it contains none), more whether text follows the leading
\* number after whitespace, battingOk / pitchingOk whether parseBattingLine /
\* parsePitchingLine return stats for the rest of the line.  The lines are
\* read one at a time; pdfLineNo counts them.
\* ---------------------------------------------------------------------------
MaxPdfLines == 6

BattingHeader == "Sorted by Batting Avg"
PitchingHeader == "Sorted by Earned Run Avg"
FieldingHeader == "Sorted by Fielding"

\* The three "if (line.includes('Sorted by ...'))" tests: the modes after a
\* sentinel line, as <<inBatting, inPitching>>.
sentinelModes_fieldingKept(text, modes) ==
    CASE text = BattingHeader -> <<TRUE, FALSE>>
      [] text = PitchingHeader -> <<FALSE, TRUE>>
      [] OTHER -> modes

sentinelModes(text, modes) ==
    CASE text = BattingHeader -> <<TRUE, FALSE>>
      [] text = PitchingHeader -> <<FALSE, TRUE>>
      [] text = FieldingHeader -> <<FALSE, FALSE>>
      [] OTHER -> modes

isSentinel(text) == text \in {BattingHeader, PitchingHeader, FieldingHeader}

\* The three "Skip headers and summary rows" tests.
isSkipped(pdfLine) ==
    \/ pdfLine.first = "#" /\ pdfLine.has = "Player"
    \/ pdfLine.first \in {"Totals", "Opponents"}
    \/ pdfLine.first \in {"LOB:", "PB:"}

\* line.match(/^(\d+)\s+(.+)/)
isNumbered(pdfLine) == pdfLine.first = "12" /\ pdfLine.more

PdfLines ==
    {[first |-> f, has |-> h, more |-> TRUE, battingOk |-> FALSE, pitchingOk |-> FALSE] :
        f \in {"#", "Totals", "Opponents", "LOB:", "PB:", "Smith"},
        h \in {"none", BattingHeader, PitchingHeader, FieldingHeader, "Player"}}
    \cup {[first |-> "12", has |-> h, more |-> m, battingOk |-> b, pitchingOk |-> p] :
        h \in {"none", BattingHeader, PitchingHeader, FieldingHeader, "Player"},
        m \in BOOLEAN, b \in BOOLEAN, p \in BOOLEAN}

InitPdf ==
    /\ pc = "pdf"
    /\ IdleExceptPdf
    /\ pdfLineNo = 0
    /\ inBatting = FALSE
    /\ inPitching = FALSE
    /\ batting = <<>>
    /\ pitching = <<>>
    /\ lastSentinel = "none"
    /\ lastPdfLine = [seen |-> FALSE]

\* One iteration of "for (const line of lines)".
ProcessPdfLine ==
    /\ pc = "pdf"
    /\ pdfLineNo < MaxPdfLines
    /\ \E pdfLine \in PdfLines :
         LET modes == sentinelModes(pdfLine.has, <<inBatting, inPitching>>)
             reads == /\ ~isSentinel(pdfLine.has)
                      /\ ~isSkipped(pdfLine)
                      /\ isNumbered(pdfLine)
         IN  /\ pdfLineNo' = pdfLineNo + 1
             /\ inBatting' = modes[1]
             /\ inPitching' = modes[2]
             /\ batting' = IF reads /\ inBatting /\ pdfLine.battingOk
                           THEN Append(batting, pdfLine.first) ELSE batting
             /\ pitching' = IF reads /\ ~inBatting /\ inPitching /\ pdfLine.pitchingOk
                            THEN Append(pitching, pdfLine.first) ELSE pitching
             /\ lastSentinel' = IF isSentinel(pdfLine.has) THEN pdfLine.has
                                ELSE lastSentinel
             /\ lastPdfLine' = [seen |-> TRUE, line |-> pdfLine,
                                sentinel |-> lastSentinel,
                                battingBefore |-> Len(batting),
                                pitchingBefore |-> Len(pitching)]
    /\ UNCHANGED <<pc, exceptPdf>>

NextPdf == ProcessPdfLine

SpecPdf == InitPdf /\ [][NextPdf]_vars

\* ---- C27 ----
C27_RecordedBatting == lastPdfLine.seen /\ Len(batting) > lastPdfLine.battingBefore

C27_RecordedPitching == lastPdfLine.seen /\ Len(pitching) > lastPdfLine.pitchingBefore

\* A Totals, Opponents, LOB:, PB: or column header line.
C27_SummaryLine ==
    /\ lastPdfLine.seen
    /\ \/ lastPdfLine.line.first \in {"Totals", "Opponents", "LOB:", "PB:"}
       \/ lastPdfLine.line.first = "#"

\* C27: the batting and pitching modes are never both active; a line is
\* recorded as batting only if it is a numbered line and the most recent
\* sentinel header was the batting header, as pitching only if that header was
\* the pitching header; lines before any header or after the fielding header,
\* sentinel lines and summary lines record nothing.
C27_SectionModes ==
    /\ ~(inBatting /\ inPitching)
    /\ C27_RecordedBatting =>
          /\ lastPdfLine.sentinel = BattingHeader
          /\ lastPdfLine.line.first = "12"
    /\ C27_RecordedPitching =>
          /\ lastPdfLine.sentinel = PitchingHeader
          /\ lastPdfLine.line.first = "12"
    /\ ~(C27_RecordedBatting /\ C27_RecordedPitching)
    /\ (lastPdfLine.seen /\ lastPdfLine.sentinel \in {"none", FieldingHeader}) =>
          ~C27_RecordedBatting /\ ~C27_RecordedPitching
    /\ C27_SummaryLine => ~C27_RecordedBatting /\ ~C27_RecordedPitching

\* A batting and a pitching record exist, and the line just processed is a
\* numbered line after the fielding header that both line parsers accept and
\* that was not recorded.
C27_Witness ==
    /\ Len(batting) > 0
    /\ Len(pitching) > 0
    /\ lastPdfLine.seen
    /\ lastPdfLine.sentinel = FieldingHeader
    /\ lastPdfLine.line.first = "12"
    /\ lastPdfLine.line.more
    /\ lastPdfLine.line.has = "none"
    /\ lastPdfLine.line.battingOk
    /\ lastPdfLine.line.pitchingOk
    /\ Len(batting) = lastPdfLine.battingBefore
    /\ Len(pitching) = lastPdfLine.pitchingBefore

\* ---- C29 ----
\* Two non-empty normalized name parts, one equal to, containing or contained
\* in the other.
C29_Genuine(a, b) == a # <<>> /\ b # <<>> /\ C9_PartMatches(a, b)

\* C29: primaryMatch (jersey match and looseNameMatch) succeeds only if a
\* non-empty normalized first or last name of the roster player equals,
\* contains or is contained in the corresponding non-empty normalized part of
\* the stat name.
C29_MatchNeverVacuous ==
    (pc = "done" /\ primaryOk) =>
        \/ C29_Genuine(normalizeName(rosterPlayer.firstName),
                       normalizeName(extractFirstName(allStats[1].name)))
        \/ C29_Genuine(normalizeName(rosterPlayer.lastName),
                       normalizeName(extractLastName(allStats[1].name)))

=============================================================================
